---------------------------- MODULE Spec2Model ----------------------------
(***************************************************************************)
(* NovaMart marketing dashboard: the router of app.py, the cached loaders  *)
(* of utils/data_loader.py, the page controllers and the chart helpers of  *)
(* utils/visualizations.py.                                                *)
(*                                                                         *)
(* The dashboard itself (sessions, router, load cache, page runs) is the   *)
(* specification Spec.  The table computations the pages make are pure     *)
(* functions of a table and of the widget selections; each is an operator  *)
(* here and is exercised by a specification of its own, whose Init draws   *)
(* the table and the selections from bounded sets.                         *)
(***************************************************************************)
EXTENDS Integers, Sequences, FiniteSets, TLC

VARIABLES
    page,        \* session -> navigation option selected, or NoPage
    pc,          \* session -> position of the running script
    shown,       \* session -> page controllers whose show() this run called
    importError, \* session -> the run ended in ImportError
    heap,        \* object reference -> table held by that object, or NoTable
    frame,       \* session -> reference held by the page's *_df variable
    firstLoad,   \* dataset -> table returned by the first load (history)
    disk,        \* dataset -> the backing CSV file as it is on disk
    reads,       \* dataset -> number of pd.read_csv calls on its file so far
    input,       \* pure-function specifications: the inputs drawn
    output       \* pure-function specifications: the result of the operation

vars == <<page, pc, shown, importError, heap, frame, firstLoad, disk, reads, input, output>>

(***************************************************************************)
(* Bounds of the model.                                                    *)
(***************************************************************************)
NumSessions == 2

Sessions == 1..NumSessions

NoPage == "none"
NoTable == [none |-> "NoTable"]
NoRef == <<"none", 0>>
Idle == [op |-> "idle"]

(***************************************************************************)
(* app.py: navigation and routing.                                         *)
(***************************************************************************)
Options ==
    { "Executive Overview", "Campaign Analytics", "Customer Insights",
      "Product Performance", "Geographic Analysis", "Attribution & Funnel",
      "ML Model Evaluation" }

\* The module each branch of the router imports.
RouteModule(option) ==
    CASE option = "Executive Overview"   -> "executive_overview"
      [] option = "Campaign Analytics"   -> "campaign_analytics"
      [] option = "Customer Insights"    -> "customer_insights"
      [] option = "Product Performance"  -> "product_performance"
      [] option = "Geographic Analysis"  -> "geographic_analysis"
      [] option = "Attribution & Funnel" -> "attribution_funnel"
      [] option = "ML Model Evaluation"  -> "ml_evaluation"

\* Every branch reads "from pages import <module>".
RoutePackage == "pages"

\* The modules each package directory of the repository holds.
PackageModules ==
    [ pages |-> {"campaign_analytics", "geographic_analysis", "product_performance"},
      page_modules |-> {"attribution_funnel", "customer_insights",
                        "executive_overview", "ml_evaluation"},
      utils |-> {"data_loader", "visualizations"} ]

\* "from pages import m" succeeds iff m is a module of the package.
ImportSucceeds(option) == RouteModule(option) \in PackageModules[RoutePackage]

(***************************************************************************)
(* utils/data_loader.py: tables and the load cache.  A table is modelled   *)
(* by its columns and their dtypes.                                        *)
(***************************************************************************)
Datasets == {"campaign_performance", "product_sales", "geographic_data"}

\* The eleven datasets, in the order load_all_data loads them.
LoadOrder ==
    << "campaign_performance", "customer_data", "product_sales",
       "lead_scoring_results", "feature_importance", "learning_curve",
       "geographic_data", "channel_attribution", "funnel_data",
       "customer_journey", "correlation_matrix" >>

AllDatasets == {LoadOrder[i] : i \in 1..Len(LoadOrder)}

\* The dataset the reachable page controllers load first.
PageDataset(option) ==
    CASE option = "Campaign Analytics"  -> "campaign_performance"
      [] option = "Product Performance" -> "product_sales"
      [] option = "Geographic Analysis" -> "geographic_data"

\* pd.read_csv of the backing file: the columns the pages read.
read_csv(ds) ==
    CASE ds = "campaign_performance" ->
            [date |-> "object", channel |-> "object", region |-> "object",
             revenue |-> "float64", conversions |-> "int64"]
      [] ds = "product_sales" ->
            [category |-> "object", product_name |-> "object", year |-> "int64",
             quarter |-> "object", sales |-> "float64"]
      [] ds = "geographic_data" ->
            [state |-> "object", revenue |-> "float64", customers |-> "int64"]

\* Column assignment df[c] = values of dtype d.
SetColumn(t, c, d) == (c :> d) @@ t

\* load_campaign_performance converts the date column; the others return
\* read_csv's table.
Loader(ds) ==
    IF ds = "campaign_performance" /\ "date" \in DOMAIN read_csv(ds)
    THEN SetColumn(read_csv(ds), "date", "datetime64")
    ELSE read_csv(ds)

CacheRef(ds) == <<"cache", ds>>
LocalRef(s) == <<"local", s>>
Refs == {CacheRef(ds) : ds \in AllDatasets} \cup {LocalRef(s) : s \in Sessions}

\* A variant of the cache that hands out the stored object itself.
cache_resource(entry, copy) == entry

\* @st.cache_data: the result is stored serialised and every call returns a
\* new object deserialised from it, never the stored one.
cache_data(entry, copy) == copy

\* campaign_analytics.show, lines 27-32.
campaign_assign(t) ==
    IF "date" \in DOMAIN t
    THEN SetColumn(SetColumn(SetColumn(SetColumn(SetColumn(t,
             "date", "datetime64"), "year", "int32"), "quarter", "int32"),
             "month", "int32"), "week", "UInt32")
    ELSE t

\* product_performance.show, lines 26-29, and line 196.
product_retype(t) ==
    LET t1 == IF "year" \in DOMAIN t
              THEN SetColumn(t, "year", IF t["year"] = "object" THEN "float64" ELSE t["year"])
              ELSE t
        t2 == IF "quarter" \in DOMAIN t1 THEN SetColumn(t1, "quarter", "object") ELSE t1
    IN  SetColumn(t2, "quarter_sort", "category")

\* What a page controller assigns on the table it got from the loader.
PageAssign(option, t) ==
    CASE option = "Campaign Analytics"  -> campaign_assign(t)
      [] option = "Product Performance" -> product_retype(t)
      [] OTHER -> t

(***************************************************************************)
(* The dashboard: one script run per user interaction and session.         *)
(***************************************************************************)
InitDashboard ==
    /\ page = [s \in Sessions |-> NoPage]
    /\ pc = [s \in Sessions |-> "idle"]
    /\ shown = [s \in Sessions |-> <<>>]
    /\ importError = [s \in Sessions |-> FALSE]
    /\ heap = [r \in Refs |-> NoTable]
    /\ frame = [s \in Sessions |-> NoRef]
    /\ firstLoad = [ds \in AllDatasets |-> NoTable]
    /\ disk = [ds \in AllDatasets |-> "v1"]
    /\ reads = [ds \in AllDatasets |-> 0]

Init == InitDashboard /\ input = Idle /\ output = Idle

\* A user interaction: the script reruns, the router imports the module of
\* the selected option and calls its show().
Interact(s, option) ==
    /\ pc[s] = "idle"
    /\ page' = [page EXCEPT ![s] = option]
    /\ heap' = [heap EXCEPT ![LocalRef(s)] = NoTable]
    /\ frame' = [frame EXCEPT ![s] = NoRef]
    /\ IF ImportSucceeds(option)
       THEN /\ shown' = [shown EXCEPT ![s] = <<RouteModule(option)>>]
            /\ importError' = [importError EXCEPT ![s] = FALSE]
            /\ pc' = [pc EXCEPT ![s] = "load"]
       ELSE /\ shown' = [shown EXCEPT ![s] = <<>>]
            /\ importError' = [importError EXCEPT ![s] = TRUE]
            /\ pc' = [pc EXCEPT ![s] = "idle"]
    /\ UNCHANGED <<firstLoad, disk, reads, input, output>>

\* show(): "<x>_df = load_<dataset>()" through the cache.
Load(s) ==
    /\ pc[s] = "load"
    /\ LET ds == PageDataset(page[s])
           miss == heap[CacheRef(ds)] = NoTable
           t == IF miss THEN Loader(ds) ELSE heap[CacheRef(ds)]
       IN  /\ heap' = [heap EXCEPT ![CacheRef(ds)] = t, ![LocalRef(s)] = t]
           /\ frame' = [frame EXCEPT ![s] = cache_data(CacheRef(ds), LocalRef(s))]
           /\ firstLoad' = IF miss THEN [firstLoad EXCEPT ![ds] = t] ELSE firstLoad
           /\ reads' = IF miss THEN [reads EXCEPT ![ds] = @ + 1] ELSE reads
    /\ pc' = [pc EXCEPT ![s] = "assign"]
    /\ UNCHANGED <<page, shown, importError, disk, input, output>>

\* show(): the column assignments on the loaded table.
Assign(s) ==
    /\ pc[s] = "assign"
    /\ heap' = [heap EXCEPT ![frame[s]] = PageAssign(page[s], @)]
    /\ pc' = [pc EXCEPT ![s] = "render"]
    /\ UNCHANGED <<page, shown, importError, frame, firstLoad, disk, reads, input, output>>

\* show(): the sections are rendered and the run ends.
Render(s) ==
    /\ pc[s] = "render"
    /\ pc' = [pc EXCEPT ![s] = "idle"]
    /\ UNCHANGED <<page, shown, importError, heap, frame, firstLoad, disk, reads, input, output>>

Next ==
    \/ \E s \in Sessions, option \in Options : Interact(s, option)
    \/ \E s \in Sessions : Load(s)
    \/ \E s \in Sessions : Assign(s)
    \/ \E s \in Sessions : Render(s)

Spec == Init /\ [][Next]_vars

(***************************************************************************)
(* C2. After first population the cached table of a dataset is never       *)
(* mutated: the stored table stays the table of the first load, and the    *)
(* table a session has just loaded is that table, whatever the other       *)
(* sessions assigned on theirs.                                            *)
(***************************************************************************)
CacheNeverMutated ==
    /\ \A ds \in Datasets :
          firstLoad[ds] # NoTable => heap[CacheRef(ds)] = firstLoad[ds]
    /\ \A s \in Sessions :
          pc[s] = "assign" => heap[frame[s]] = firstLoad[PageDataset(page[s])]

\* A session has assigned its columns and another session loads the same
\* dataset afterwards and sees none of them.
CacheNeverMutatedWitness ==
    \E s, t \in Sessions :
        /\ s # t
        /\ page[s] = "Campaign Analytics" /\ pc[s] = "render"
        /\ "year" \in DOMAIN heap[frame[s]]
        /\ page[t] = "Campaign Analytics" /\ pc[t] = "assign"
        /\ "year" \notin DOMAIN heap[frame[t]]

(***************************************************************************)
(* C3. For each navigation option one interaction dispatches to exactly    *)
(* one page controller's show(), and the module the router imports exists  *)
(* in the package it is imported from.                                     *)
(***************************************************************************)
RouterDispatchesOne ==
    \A s \in Sessions :
        page[s] # NoPage =>
            /\ Len(shown[s]) = 1
            /\ ~importError[s]
            /\ RouteModule(page[s]) \in PackageModules[RoutePackage]

(***************************************************************************)
(* Helpers on tables: a table is a sequence of rows, a row a record.       *)
(***************************************************************************)
RECURSIVE SumSeq(_)
SumSeq(q) == IF q = <<>> THEN 0 ELSE Head(q) + SumSeq(Tail(q))

\* Sequences over S of length 0..n.
SeqsUpTo(S, n) == UNION {[1..k -> S] : k \in 0..n}

RowOrders(n) == {p \in [1..n -> 1..n] : \A i, j \in 1..n : i # j => p[i] # p[j]}

\* DataFrame.sort_values(by): the row orders a sort on the key sequence k can
\* produce.  The default sort (kind='quicksort') is not stable, so rows with
\* equal keys come out in any order.
SortOrders(k, ascending) ==
    {p \in RowOrders(Len(k)) :
        \A i \in 1..Len(k) - 1 :
            IF ascending THEN k[p[i]] <= k[p[i + 1]] ELSE k[p[i]] >= k[p[i + 1]]}

Reorder(t, p) == [i \in 1..Len(t) |-> t[p[i]]]

Column(t, c) == [i \in 1..Len(t) |-> t[i][c]]

(***************************************************************************)
(* campaign_analytics.show, section 2: cumulative conversions by channel.  *)
(***************************************************************************)
MaxCampaignRows == 3
Dates == {1, 2}
Channels == {"ads", "email"}
Regions == {"North", "South"}
ConversionValues == {5, 10}

CampaignRows ==
    [date : Dates, channel : Channels, region : Regions,
     conversions : ConversionValues]

\* campaign_df[campaign_df['region'].isin(region_filter)].copy()
RegionFiltered(t, region_filter) ==
    SelectSeq(t, LAMBDA r : r.region \in region_filter)

\* groupby('channel')['conversions'].cumsum() on the rows in their order.
groupby_cumsum(t) ==
    [i \in 1..Len(t) |->
        SumSeq(Column(SelectSeq(SubSeq(t, 1, i),
                                LAMBDA r : r.channel = t[i].channel),
                      "conversions"))]

\* groupby(['date', 'channel'])['cumulative_conversions'].sum()
cumulative_agg(t, cum) ==
    [k \in {<<t[i].date, t[i].channel>> : i \in 1..Len(t)} |->
        SumSeq(Column(SelectSeq([i \in 1..Len(t) |-> [key |-> <<t[i].date, t[i].channel>>,
                                                      v |-> cum[i]]],
                                LAMBDA r : r.key = k),
                      "v"))]

InitCumulative ==
    /\ InitDashboard
    /\ input \in [table : SeqsUpTo(CampaignRows, MaxCampaignRows),
                  region_filter : SUBSET Regions]
    /\ output = Idle

\* Lines 95-105: filter by region, sort by date, accumulate per channel and
\* sum the accumulated column per (date, channel).
ShowCumulative ==
    /\ output = Idle
    /\ LET filtered == RegionFiltered(input.table, input.region_filter)
       IN  \E p \in SortOrders(Column(filtered, "date"), TRUE) :
              LET sorted == Reorder(filtered, p)
              IN  output' = [op |-> "cumulative",
                             sorted |-> sorted,
                             agg |-> cumulative_agg(sorted, groupby_cumsum(sorted))]
    /\ UNCHANGED <<page, pc, shown, importError, heap, frame, firstLoad, disk, reads, input>>

SpecCumulative == InitCumulative /\ [][ShowCumulative]_vars

(***************************************************************************)
(* C1. The cumulative-conversions value produced for (date, channel) is    *)
(* the running sum of that channel's conversions over all the rows of the  *)
(* region-filtered table with a date up to that date, for any number of    *)
(* rows per (date, channel).                                               *)
(***************************************************************************)
CumulativeIsRunningSum ==
    output.op = "cumulative" =>
        LET filtered == RegionFiltered(input.table, input.region_filter)
        IN  \A k \in DOMAIN output.agg :
               output.agg[k] =
                   SumSeq(Column(SelectSeq(filtered,
                                           LAMBDA r : r.channel = k[2] /\ r.date <= k[1]),
                                 "conversions"))

(***************************************************************************)
(* ml_evaluation.show, section 6, and create_feature_importance_plot /     *)
(* create_horizontal_bar_chart of utils/visualizations.py.                 *)
(*                                                                         *)
(* A feature table is its ordered column names, the set of its numeric     *)
(* columns and its rows; a string value is modelled by its rank in string  *)
(* order, so every column can be a sort key.                               *)
(***************************************************************************)
MaxFeatures == 3
CellValues == {1, 2}

\* The column layouts of feature_importance.csv the helper's probing of
\* alternate column names distinguishes.
FeatureSchemas ==
    { [columns |-> <<"feature", "importance", "std">>, numeric |-> {"importance", "std"}],
      [columns |-> <<"feature", "importance">>,        numeric |-> {"importance"}],
      [columns |-> <<"feature", "score">>,             numeric |-> {"score"}],
      [columns |-> <<"name", "importance">>,           numeric |-> {"importance"}],
      [columns |-> <<"name", "score">>,                numeric |-> {"score"}],
      [columns |-> <<"feature", "label">>,             numeric |-> {}],
      [columns |-> <<"score">>,                        numeric |-> {"score"}] }

Range(q) == {q[i] : i \in 1..Len(q)}

FeatureTables ==
    UNION {[columns : {sch.columns}, numeric : {sch.numeric},
            rows : SeqsUpTo([Range(sch.columns) -> CellValues], MaxFeatures)]
           : sch \in FeatureSchemas}

NoColumn == "<none>"

\* First element of the column sequence q that is in the set S, or NoColumn.
FirstColumn(q, S) ==
    LET kept == {i \in 1..Len(q) : q[i] \in S}
    IN  IF kept = {} THEN NoColumn
        ELSE q[CHOOSE i \in kept : \A j \in kept : i <= j]

KeyError(c) == [kind |-> "error", exception |-> "KeyError", column |-> c]
ValueError(c) == [kind |-> "error", exception |-> "ValueError", column |-> c]
IndexError == [kind |-> "error", exception |-> "IndexError", column |-> NoColumn]

\* Lines 577-588: the column the bars are sorted and drawn by.
importance_column(data, importance_col) ==
    IF importance_col \in Range(data.columns) THEN importance_col
    ELSE FirstColumn(data.columns, data.numeric)

\* Lines 590-596: the column the bars are labelled by.
name_column(data, name_col, importance_col, std_col) ==
    IF name_col \in Range(data.columns) THEN name_col
    ELSE LET found == FirstColumn(data.columns,
                                  Range(data.columns) \ {importance_col, std_col})
         IN  IF found = NoColumn THEN name_col ELSE found

\* The variant takes the error bars from the table before the sort.
create_feature_importance_plot_unsorted_std(data, p) ==
    LET imp == importance_column(data, "importance")
        name == name_column(data, "feature", imp, "std")
        data_sorted == Reorder(data.rows, p)
    IN  IF imp = NoColumn
        THEN [kind |-> "annotation", text |-> "No numeric columns found for importance"]
        ELSE IF name \notin Range(data.columns) THEN KeyError(name)
        ELSE [kind |-> "bar",
              name_col |-> name,
              importance_col |-> imp,
              y |-> Column(data_sorted, name),
              x |-> Column(data_sorted, imp),
              error_x |-> IF "std" \in Range(data.columns)
                          THEN Column(data.rows, "std") ELSE <<>>,
              has_error_x |-> "std" \in Range(data.columns)]

\* create_feature_importance_plot(data) with its default column bindings; p
\* is the row order its sort_values produces.
create_feature_importance_plot(data, p) ==
    LET imp == importance_column(data, "importance")
        name == name_column(data, "feature", imp, "std")
        data_sorted == Reorder(data.rows, p)
    IN  IF imp = NoColumn
        THEN [kind |-> "annotation", text |-> "No numeric columns found for importance"]
        ELSE IF name \notin Range(data.columns) THEN KeyError(name)
        ELSE [kind |-> "bar",
              name_col |-> name,
              importance_col |-> imp,
              y |-> Column(data_sorted, name),
              x |-> Column(data_sorted, imp),
              error_x |-> IF "std" \in Range(data.columns)
                          THEN Column(data_sorted, "std") ELSE <<>>,
              has_error_x |-> "std" \in Range(data.columns)]

InitFeature ==
    /\ InitDashboard
    /\ input \in [table : FeatureTables, sort_order : {"Ascending", "Descending"},
                  x_col : {"importance", "score"}]
    /\ output = Idle

\* ml_evaluation.show lines 171-189: sort by the second column in the order
\* the user chose, then hand the table to create_feature_importance_plot.
ShowFeatureImportance ==
    /\ output = Idle
    /\ LET t == input.table
       IN  IF t.rows = <<>>
           THEN output' = [op |-> "feature", chart |-> [kind |-> "none"]]
           ELSE IF Len(t.columns) < 2
           THEN output' = [op |-> "feature", chart |-> IndexError]
           ELSE \E p1 \in SortOrders(Column(t.rows, t.columns[2]),
                                     input.sort_order = "Ascending") :
                   LET feature_data == [t EXCEPT !.rows = Reorder(t.rows, p1)]
                       imp == importance_column(feature_data, "importance")
                   IN  \E p2 \in IF imp = NoColumn THEN {[i \in 1..Len(t.rows) |-> i]}
                                 ELSE SortOrders(Column(feature_data.rows, imp), TRUE) :
                          output' = [op |-> "feature",
                                     chart |-> create_feature_importance_plot(feature_data, p2)]
    /\ UNCHANGED <<page, pc, shown, importError, heap, frame, firstLoad, disk, reads, input>>

\* create_horizontal_bar_chart(data, x_col, y_col, title): the sort is tried
\* and any failure of it is swallowed; px.bar then rejects a binding that is
\* not a column of the table.
create_horizontal_bar_chart(data, x_col, y_col, p) ==
    LET sorted_data == IF x_col \in Range(data.columns)
                       THEN Reorder(data.rows, p) ELSE data.rows
    IN  IF x_col \notin Range(data.columns) THEN ValueError(x_col)
        ELSE IF y_col \notin Range(data.columns) THEN ValueError(y_col)
        ELSE [kind |-> "bar", x |-> Column(sorted_data, x_col),
              y |-> Column(sorted_data, y_col)]

ShowHorizontalBar ==
    /\ output = Idle
    /\ LET t == input.table
       IN  \E p \in IF input.x_col \in Range(t.columns)
                    THEN SortOrders(Column(t.rows, input.x_col), TRUE)
                    ELSE {[i \in 1..Len(t.rows) |-> i]} :
              output' = [op |-> "hbar",
                         chart |-> create_horizontal_bar_chart(t, input.x_col, "feature", p)]
    /\ UNCHANGED <<page, pc, shown, importError, heap, frame, firstLoad, disk, reads, input>>

NextFeature == ShowFeatureImportance \/ ShowHorizontalBar

SpecFeature == InitFeature /\ [][NextFeature]_vars

Ascending(q) == \A i \in 1..Len(q) - 1 : q[i] <= q[i + 1]
Descending(q) == \A i \in 1..Len(q) - 1 : q[i] >= q[i + 1]

(***************************************************************************)
(* C4. The feature-importance chart lists the features in the order the    *)
(* user requested: ascending importance under 'Ascending', descending      *)
(* importance under 'Descending'.                                          *)
(***************************************************************************)
FeatureChartInRequestedOrder ==
    (output.op = "feature" /\ output.chart.kind = "bar") =>
        IF input.sort_order = "Ascending"
        THEN Ascending(output.chart.x) ELSE Descending(output.chart.x)

(***************************************************************************)
(* C6. When a required column binding is absent from the table, chart      *)
(* preparation fails with an error naming that column: the feature chart   *)
(* never draws another column in place of an absent importance or name     *)
(* column, and the horizontal bar chart never comes back with unsorted     *)
(* data.                                                                   *)
(***************************************************************************)
MissingColumnFails ==
    /\ (output.op = "feature" /\ output.chart.kind \notin {"none"}
                              /\ Len(input.table.columns) >= 2) =>
          /\ "importance" \notin Range(input.table.columns) =>
                (output.chart.kind = "error" /\ output.chart.column = "importance")
          /\ ("importance" \in Range(input.table.columns)
                /\ "feature" \notin Range(input.table.columns)) =>
                (output.chart.kind = "error" /\ output.chart.column = "feature")
    /\ output.op = "hbar" =>
          /\ input.x_col \notin Range(input.table.columns) =>
                (output.chart.kind = "error" /\ output.chart.column = input.x_col)
          /\ output.chart.kind = "bar" => Ascending(output.chart.x)

(***************************************************************************)
(* ml_evaluation.show, sections 1 and 2: the confusion matrix.             *)
(***************************************************************************)
MaxLeads == 4
Labels == {0, 1}

\* The number of rows of t that are in the set S.
Count(t, S) == Cardinality({i \in 1..Len(t) : t[i] \in S})

\* The elements of a set of integers in increasing order.
RECURSIVE SortedSeq(_)
SortedSeq(S) ==
    IF S = {} THEN <<>>
    ELSE LET m == CHOOSE x \in S : \A y \in S : x <= y
         IN  <<m>> \o SortedSeq(S \ {m})

\* sklearn.metrics.confusion_matrix(y_true, y_pred).ravel(): one row and one
\* column per label that occurs in y_true or y_pred, in sorted order,
\* flattened row by row.
confusion_matrix_ravel(t) ==
    LET labels == SortedSeq({t[i].actual : i \in 1..Len(t)}
                              \cup {t[i].predicted : i \in 1..Len(t)})
        n == Len(labels)
    IN  [k \in 1..n * n |->
            Count(t, {[actual |-> labels[((k - 1) \div n) + 1],
                       predicted |-> labels[((k - 1) % n) + 1]]})]

\* "tn, fp, fn, tp = cm.ravel()": unpacking needs exactly four values.
confusion_counts(t) ==
    LET flat == confusion_matrix_ravel(t)
    IN  IF Len(flat) = 4
        THEN [kind |-> "counts", tn |-> flat[1], fp |-> flat[2],
              fn |-> flat[3], tp |-> flat[4]]
        ELSE [kind |-> "error", exception |-> "ValueError", column |-> NoColumn]

InitConfusion ==
    /\ InitDashboard
    /\ input \in [table : SeqsUpTo([actual : Labels, predicted : Labels], MaxLeads)]
    /\ output = Idle

ShowConfusionMatrix ==
    /\ output = Idle
    /\ output' = [op |-> "confusion", result |-> confusion_counts(input.table)]
    /\ UNCHANGED <<page, pc, shown, importError, heap, frame, firstLoad, disk, reads, input>>

SpecConfusion == InitConfusion /\ [][ShowConfusionMatrix]_vars

(***************************************************************************)
(* C5. For every pair of equal-length, non-empty binary label sequences,   *)
(* also when only one label value occurs, the page obtains tn, fp, fn, tp  *)
(* under the convention 0 = negative, 1 = positive, and they add up to the *)
(* number of rows.                                                         *)
(***************************************************************************)
ConfusionCountsComplete ==
    (output.op = "confusion" /\ Len(input.table) >= 1) =>
        LET t == input.table
            r == output.result
        IN  /\ r.kind = "counts"
            /\ r.tn = Count(t, {[actual |-> 0, predicted |-> 0]})
            /\ r.fp = Count(t, {[actual |-> 0, predicted |-> 1]})
            /\ r.fn = Count(t, {[actual |-> 1, predicted |-> 0]})
            /\ r.tp = Count(t, {[actual |-> 1, predicted |-> 1]})
            /\ r.tn + r.fp + r.fn + r.tp = Len(t)

(***************************************************************************)
(* product_performance.show: the sections of the page, in order.  The      *)
(* product table is modelled by the set of its columns.                    *)
(***************************************************************************)
ProductColumns ==
    { "category", "sales", "units_sold", "profit", "profit_margin", "region",
      "quarter", "year", "product_name", "subcategory", "avg_rating",
      "review_count", "return_rate" }

\* Sections 1 to 10 and the raw data viewer (11).
ProductSections == 1..11

\* The columns the "if ... in product_df.columns" test before the section
\* asks for.
SectionGuard(x) ==
    CASE x = 1 -> {"category"}
      [] x = 2 -> {"region", "quarter"}
      [] x = 7 -> {"subcategory", "category"}
      [] x = 8 -> {"avg_rating", "review_count"}
      [] x = 10 -> {"return_rate"}
      [] OTHER -> {}

\* The columns the section's code reads.
SectionReads(x) ==
    CASE x = 1 -> {"category", "sales", "units_sold", "profit", "profit_margin"}
      [] x = 2 -> {"region", "quarter", "sales"}
      [] x = 3 -> {"category", "profit_margin"}
      [] x = 4 -> {"product_name", "sales", "units_sold", "profit"}
      [] x = 5 -> {"quarter", "sales"}
      [] x = 6 -> {"product_name", "sales", "units_sold", "category"}
      [] x = 7 -> {"category", "subcategory", "sales", "units_sold", "profit"}
      [] x = 8 -> {"category", "avg_rating", "review_count"}
      [] x = 9 -> {"product_name", "sales", "profit", "profit_margin"}
      [] x = 10 -> {"category", "return_rate"}
      [] x = 11 -> {}

\* Whether the section's code runs inside try/except.
SectionInTry(x) == x \notin {9, 11}

\* show() from section x on; st is what the run produced so far.
RECURSIVE RunSections(_, _, _)
RunSections(cols, x, st) ==
    IF x \notin ProductSections \/ st.stopped # "no" THEN st
    ELSE IF ~(SectionGuard(x) \subseteq cols)
    THEN IF x = 1
         THEN [st EXCEPT !.stopped = "return"]
         ELSE RunSections(cols, x + 1, [st EXCEPT !.skipped = @ \cup {x}])
    ELSE IF SectionReads(x) \subseteq cols
    THEN RunSections(cols, x + 1, [st EXCEPT !.rendered = @ \cup {x}])
    ELSE IF SectionInTry(x)
    THEN RunSections(cols, x + 1, [st EXCEPT !.errors = @ \cup {x}])
    ELSE [st EXCEPT !.stopped = "KeyError"]

product_performance_show(cols) ==
    RunSections(cols, 1, [rendered |-> {}, errors |-> {}, skipped |-> {},
                          stopped |-> "no"])

InitProduct ==
    /\ InitDashboard
    /\ input \in [columns : SUBSET ProductColumns]
    /\ output = Idle

ShowProductPerformance ==
    /\ output = Idle
    /\ output' = [op |-> "product", run |-> product_performance_show(input.columns)]
    /\ UNCHANGED <<page, pc, shown, importError, heap, frame, firstLoad, disk, reads, input>>

SpecProduct == InitProduct /\ [][ShowProductPerformance]_vars

(***************************************************************************)
(* C7. On the Product Performance page a failure in one section is         *)
(* confined to that section: every section whose own columns are present   *)
(* is rendered in the same interaction.                                    *)
(***************************************************************************)
ProductFailureConfined ==
    output.op = "product" =>
        \A x \in ProductSections :
            SectionReads(x) \subseteq input.columns => x \in output.run.rendered

(***************************************************************************)
(* Double-precision arithmetic, as the Python and numpy expressions of     *)
(* utils/visualizations.py evaluate it.  Natural numbers of any size are   *)
(* sequences of limbs in base BBase, least significant first, without      *)
(* leading zero limbs.  A double that is not negative is [m, e], standing  *)
(* for m * 2^e with m of exactly 53 bits, or FZero, or FNaN.               *)
(***************************************************************************)
BBase == 32768
LimbBits == 15
Mantissa == 53

RECURSIVE Pow(_, _)
Pow(b, n) == IF n = 0 THEN 1 ELSE b * Pow(b, n - 1)

RECURSIVE IntBitLen(_)
IntBitLen(n) == IF n = 0 THEN 0 ELSE 1 + IntBitLen(n \div 2)

Rest(a) == IF a = <<>> THEN <<>> ELSE Tail(a)
Limb(a, i) == IF i <= Len(a) THEN a[i] ELSE 0

RECURSIVE BNorm(_)
BNorm(a) ==
    IF a # <<>> /\ a[Len(a)] = 0 THEN BNorm(SubSeq(a, 1, Len(a) - 1)) ELSE a

RECURSIVE BFromInt(_)
BFromInt(n) == IF n = 0 THEN <<>> ELSE <<n % BBase>> \o BFromInt(n \div BBase)

\* a + b + c, c a carry.
RECURSIVE BAddC(_, _, _)
BAddC(a, b, c) ==
    IF a = <<>> /\ b = <<>> THEN (IF c = 0 THEN <<>> ELSE <<c>>)
    ELSE LET t == Limb(a, 1) + Limb(b, 1) + c
         IN  <<t % BBase>> \o BAddC(Rest(a), Rest(b), t \div BBase)

BAdd(a, b) == BAddC(a, b, 0)

\* a - b - c for a >= b + c, c a borrow.
RECURSIVE BSubC(_, _, _)
BSubC(a, b, c) ==
    IF a = <<>> THEN <<>>
    ELSE LET t == a[1] - Limb(b, 1) - c
         IN  <<IF t < 0 THEN t + BBase ELSE t>>
                 \o BSubC(Tail(a), Rest(b), IF t < 0 THEN 1 ELSE 0)

BSub(a, b) == BNorm(BSubC(a, b, 0))

\* -1, 0, 1 as a < b, a = b, a > b.
RECURSIVE BCmp(_, _)
BCmp(a, b) ==
    IF Len(a) # Len(b) THEN (IF Len(a) < Len(b) THEN -1 ELSE 1)
    ELSE IF a = <<>> THEN 0
    ELSE IF a[Len(a)] # b[Len(b)] THEN (IF a[Len(a)] < b[Len(b)] THEN -1 ELSE 1)
    ELSE BCmp(BNorm(SubSeq(a, 1, Len(a) - 1)), BNorm(SubSeq(b, 1, Len(b) - 1)))

\* a * k + c for 0 <= k <= BBase.
RECURSIVE BMulC(_, _, _)
BMulC(a, k, c) ==
    IF a = <<>> THEN (IF c = 0 THEN <<>> ELSE <<c>>)
    ELSE LET t == a[1] * k + c
         IN  <<t % BBase>> \o BMulC(Tail(a), k, t \div BBase)

BMulSmall(a, k) == BNorm(BMulC(a, k, 0))

RECURSIVE BMul(_, _)
BMul(a, b) ==
    IF a = <<>> \/ b = <<>> THEN <<>>
    ELSE BNorm(BAdd(BMulSmall(a, b[1]), <<0>> \o BMul(a, Tail(b))))

\* Quotient and remainder of a by d, 0 < d < BBase.
RECURSIVE BDivC(_, _)
BDivC(a, d) ==
    IF a = <<>> THEN [q |-> <<>>, r |-> 0]
    ELSE LET hi == BDivC(Tail(a), d)
             cur == hi.r * BBase + a[1]
         IN  [q |-> <<cur \div d>> \o hi.q, r |-> cur % d]

BDivSmall(a, d) == [q |-> BNorm(BDivC(a, d).q), r |-> BDivC(a, d).r]

\* floor(a / (ds[1] * ... * ds[n])) and whether the division left a remainder.
RECURSIVE BDivSeq(_, _)
BDivSeq(a, ds) ==
    IF ds = <<>> THEN [q |-> a, inexact |-> FALSE]
    ELSE LET first == BDivSmall(a, Head(ds))
             more == BDivSeq(first.q, Tail(ds))
         IN  [q |-> more.q, inexact |-> first.r # 0 \/ more.inexact]

\* a * 2^n and floor(a / 2^n).
BShl(a, n) ==
    IF a = <<>> THEN <<>>
    ELSE [i \in 1..(n \div LimbBits) |-> 0] \o BMulSmall(a, Pow(2, n % LimbBits))

BShr(a, n) ==
    IF n \div LimbBits >= Len(a) THEN <<>>
    ELSE BDivSmall(SubSeq(a, (n \div LimbBits) + 1, Len(a)), Pow(2, n % LimbBits)).q

BBitLen(a) ==
    IF a = <<>> THEN 0 ELSE LimbBits * (Len(a) - 1) + IntBitLen(a[Len(a)])

\* floor(a / 2^n), rounded up when the part dropped is above one half, or is
\* one half and the quotient is odd (round-half-even).
BShrRound(a, n) ==
    IF n = 0 THEN a
    ELSE LET q == BShr(a, n)
             c == BCmp(BSub(a, BShl(q, n)), BShl(<<1>>, n - 1))
         IN  IF c > 0 \/ (c = 0 /\ Limb(q, 1) % 2 = 1) THEN BAdd(q, <<1>>) ELSE q

FZero == [m |-> <<>>, e |-> 0]
FNaN == [nan |-> TRUE]

\* The double nearest to a * 2^e (ties to even).
FRound(a, e) ==
    LET len == BBitLen(a)
    IN  IF len = 0 THEN FZero
        ELSE IF len <= Mantissa THEN [m |-> BShl(a, Mantissa - len), e |-> e - (Mantissa - len)]
        ELSE LET q == BShrRound(a, len - Mantissa)
             IN  IF BBitLen(q) > Mantissa
                 THEN [m |-> BShr(q, 1), e |-> e + (len - Mantissa) + 1]
                 ELSE [m |-> q, e |-> e + (len - Mantissa)]

FFromInt(n) == FRound(BFromInt(n), 0)

\* x / (ds[1] * ... * ds[n]), every ds[i] below BBase: the exact quotient is
\* cut after 64 further bits, with one more bit telling whether anything
\* was cut off, and rounded once.
FDiv(x, ds) ==
    IF x = FZero THEN FZero
    ELSE LET d == BDivSeq(BShl(x.m, 64 + LimbBits * Len(ds)), ds)
         IN  FRound(BAdd(BMulSmall(d.q, 2), IF d.inexact THEN <<1>> ELSE <<>>),
                    x.e - (64 + LimbBits * Len(ds)) - 1)

FMinExp(x, y) == IF x.e < y.e THEN x.e ELSE y.e

FAdd(x, y) ==
    IF x = FNaN \/ y = FNaN THEN FNaN
    ELSE IF x = FZero THEN y
    ELSE IF y = FZero THEN x
    ELSE FRound(BAdd(BShl(x.m, x.e - FMinExp(x, y)), BShl(y.m, y.e - FMinExp(x, y))),
                FMinExp(x, y))

\* x - y for x >= y.
FSub(x, y) ==
    IF x = FNaN \/ y = FNaN THEN FNaN
    ELSE IF y = FZero THEN x
    ELSE FRound(BSub(BShl(x.m, x.e - FMinExp(x, y)), BShl(y.m, y.e - FMinExp(x, y))),
                FMinExp(x, y))

FMul(x, y) ==
    IF x = FNaN \/ y = FNaN THEN FNaN
    ELSE IF x = FZero \/ y = FZero THEN FZero
    ELSE FRound(BMul(x.m, y.m), x.e + y.e)

\* round(x * 10^d) as an integer, ties to even: the digits "%.<d>f" prints.
FixedDigits(x, d) ==
    IF x = FZero THEN <<>>
    ELSE LET scaled == BMul(x.m, BFromInt(Pow(10, d)))
         IN  IF x.e >= 0 THEN BShl(scaled, x.e) ELSE BShrRound(scaled, 0 - x.e)

(***************************************************************************)
(* utils/visualizations.py: format_number.  A string is the sequence of    *)
(* its characters.                                                         *)
(***************************************************************************)
MaxDecimals == 2

DigitChars == <<"0", "1", "2", "3", "4", "5", "6", "7", "8", "9">>

\* The decimal digits of the natural a, none for 0.
RECURSIVE Digits(_)
Digits(a) ==
    IF a = <<>> THEN <<>>
    ELSE Digits(BDivSmall(a, 10).q) \o <<DigitChars[BDivSmall(a, 10).r + 1]>>

\* q with leading zeros up to w characters.
RECURSIVE ZeroPad(_, _)
ZeroPad(q, w) == IF Len(q) >= w THEN q ELSE ZeroPad(<<"0">> \o q, w)

\* f"{v:.{d}f}" for the double v = x, or v = -x when negative.
FormatFixed(negative, x, d) ==
    LET ds == ZeroPad(Digits(FixedDigits(x, d)), d + 1)
    IN  (IF negative THEN <<"-">> ELSE <<>>)
            \o SubSeq(ds, 1, Len(ds) - d)
            \o (IF d = 0 THEN <<>> ELSE <<".">> \o SubSeq(ds, Len(ds) - d + 1, Len(ds)))

\* A variant that compares num itself, not its absolute value.
format_number_signed(num, prefix, decimals) ==
    LET x == FFromInt(IF num < 0 THEN 0 - num ELSE num)
    IN  IF num >= 1000000000
        THEN prefix \o FormatFixed(num < 0, FDiv(x, <<1000, 1000, 1000>>), decimals) \o <<"B">>
        ELSE IF num >= 1000000
        THEN prefix \o FormatFixed(num < 0, FDiv(x, <<1000, 1000>>), decimals) \o <<"M">>
        ELSE IF num >= 1000
        THEN prefix \o FormatFixed(num < 0, FDiv(x, <<1000>>), decimals) \o <<"K">>
        ELSE prefix \o FormatFixed(num < 0, x, decimals)

\* format_number(num, prefix, decimals) for an integer num.
format_number(num, prefix, decimals) ==
    LET abs_num == IF num < 0 THEN 0 - num ELSE num
        x == FFromInt(abs_num)
    IN  IF abs_num >= 1000000000
        THEN prefix \o FormatFixed(num < 0, FDiv(x, <<1000, 1000, 1000>>), decimals) \o <<"B">>
        ELSE IF abs_num >= 1000000
        THEN prefix \o FormatFixed(num < 0, FDiv(x, <<1000, 1000>>), decimals) \o <<"M">>
        ELSE IF abs_num >= 1000
        THEN prefix \o FormatFixed(num < 0, FDiv(x, <<1000>>), decimals) \o <<"K">>
        ELSE prefix \o FormatFixed(num < 0, x, decimals)

\* The numbers formatted: s * m * 10^k.
FormatNumbers ==
    {0} \cup
    {sgn * m * Pow(10, k) :
        sgn \in {1, -1},
        m \in {1, 5, 15, 23, 25, 105, 115, 125, 999, 9995},
        k \in 0..5}
    \cup {sgn * m * 100000000 : sgn \in {1, -1}, m \in {1, 9, 10, 15, 21}}
    \cup {999999, -999999}

InitFormat ==
    /\ InitDashboard
    /\ input \in [num : FormatNumbers, decimals : 0..MaxDecimals]
    /\ output = Idle

FormatNumber ==
    /\ output = Idle
    /\ output' = [op |-> "format",
                  text |-> format_number(input.num, <<>>, input.decimals)]
    /\ UNCHANGED <<page, pc, shown, importError, heap, frame, firstLoad, disk, reads, input>>

SpecFormat == InitFormat /\ [][FormatNumber]_vars

\* The natural a sequence of characters spells, skipping the characters that
\* are no digits.
RECURSIVE ParseDigits(_)
ParseDigits(q) ==
    IF q = <<>> THEN <<>>
    ELSE LET c == q[Len(q)]
             front == ParseDigits(SubSeq(q, 1, Len(q) - 1))
         IN  IF c \in Range(DigitChars)
             THEN BAdd(BMulSmall(front, 10),
                       BFromInt(CHOOSE i \in 0..9 : DigitChars[i + 1] = c))
             ELSE front

\* |a - b| for naturals of any size.
BAbsDiff(a, b) == IF BCmp(a, b) >= 0 THEN BSub(a, b) ELSE BSub(b, a)

(***************************************************************************)
(* utils/visualizations.py: format_percentage.  A number is n / 10^k, the  *)
(* double a decimal literal denotes, or n * 2^e, a double of any size.     *)
(***************************************************************************)
PercentNumbers ==
    [n : {0, 1, -1, 5, 25, 125, -125, 155, 285, 1005, 1234, 9995, -9995, 12345},
     k : 0..4, e : {0}]
    \cup [n : {1, -1, 3}, k : {0}, e : {60, 200, 1018, 1020}]

\* The double of the number: |n| / 10^k * 2^e (the sign is carried apart).
PercentDouble(num) ==
    LET x == FDiv(FFromInt(IF num.n < 0 THEN 0 - num.n ELSE num.n), <<Pow(10, num.k)>>)
    IN  IF x = FZero THEN FZero ELSE [x EXCEPT !.e = @ + num.e]

\* A double m * 2^e with a mantissa of 53 bits is finite below 2^1024.
IsFinite(x) == x = FZero \/ x.e + Mantissa <= 1024

\* A variant that formats num itself.
format_percentage_unscaled(num, decimals) ==
    LET product == PercentDouble(num)
    IN  IF ~IsFinite(product) THEN (IF num.n < 0 THEN <<"-">> ELSE <<>>) \o <<"i", "n", "f", "%">>
        ELSE FormatFixed(num.n < 0, product, decimals) \o <<"%">>

\* Lines 675-679: f"{num*100:.{decimals}f}%"; a product beyond the largest
\* double is inf and prints as 'inf'.
format_percentage(num, decimals) ==
    LET product == FMul(PercentDouble(num), FFromInt(100))
    IN  IF ~IsFinite(product) THEN (IF num.n < 0 THEN <<"-">> ELSE <<>>) \o <<"i", "n", "f", "%">>
        ELSE FormatFixed(num.n < 0, product, decimals) \o <<"%">>

InitPercent ==
    /\ InitDashboard
    /\ input \in [num : PercentNumbers, decimals : 0..MaxDecimals]
    /\ output = Idle

FormatPercentage ==
    /\ output = Idle
    /\ output' = [op |-> "percent",
                  text |-> format_percentage(input.num, input.decimals)]
    /\ UNCHANGED <<page, pc, shown, importError, heap, frame, firstLoad, disk, reads, input>>

SpecPercent == InitPercent /\ [][FormatPercentage]_vars

\* q without its leading "0" characters.
RECURSIVE StripZeros(_)
StripZeros(q) == IF q # <<>> /\ Head(q) = "0" THEN StripZeros(Tail(q)) ELSE q

\* text is the number num * 100 at d decimals followed by '%': digits with d
\* of them after the point, the sign of num, and a value within half a unit
\* of the last place of num * 100.
RendersPercent(num, d, text) ==
    LET body == SubSeq(text, 1, Len(text) - 1)
        abs_n == IF num.n < 0 THEN 0 - num.n ELSE num.n
        IsDigit(c) == c \in Range(DigitChars)
        scaled == BShl(BMul(BFromInt(abs_n), BFromInt(100 * Pow(10, d))), num.e)
        below == BDivSmall(scaled, Pow(10, num.k)).q
    IN  /\ text[Len(text)] = "%"
        /\ \A i \in 1..Len(body) : body[i] \in Range(DigitChars) \cup {"-", "."}
        /\ \A i \in 2..Len(body) : body[i] # "-"
        /\ (body[1] = "-") <=> (num.n < 0)
        /\ IF d = 0 THEN "." \notin Range(body)
           ELSE /\ Len(body) > d + 1
                /\ body[Len(body) - d] = "."
                /\ \A i \in 1..Len(body) : body[i] = "." => i = Len(body) - d
        /\ \E shown_value \in {below, BAdd(below, <<1>>)} :
              /\ StripZeros(SelectSeq(body, IsDigit)) = Digits(shown_value)
              /\ BCmp(BMulSmall(BAbsDiff(BMulSmall(shown_value, Pow(10, num.k)), scaled), 2),
                      BFromInt(Pow(10, num.k))) <= 0

(***************************************************************************)
(* C22 as stated: for every finite num, format_percentage(num, decimals)   *)
(* is num * 100 at the requested decimals followed by '%', and             *)
(* format_percentage(0.1234, 1) is "12.3%".                                *)
(***************************************************************************)
PercentOfEveryFinite ==
    output.op = "percent" =>
        /\ RendersPercent(input.num, input.decimals, output.text)
        /\ (input.num = [n |-> 1234, k |-> 4, e |-> 0] /\ input.decimals = 1) =>
              output.text = <<"1", "2", ".", "3", "%">>

(***************************************************************************)
(* C22 amended: the same for every num whose product with 100 is a finite  *)
(* double.                                                                 *)
(***************************************************************************)
PercentOfFiniteProduct ==
    (output.op = "percent"
        /\ IsFinite(FMul(PercentDouble(input.num), FFromInt(100)))) =>
        /\ RendersPercent(input.num, input.decimals, output.text)
        /\ (input.num = [n |-> 1234, k |-> 4, e |-> 0] /\ input.decimals = 1) =>
              output.text = <<"1", "2", ".", "3", "%">>

\* 0.1234 has been formatted at one decimal.
PercentOfFiniteProductWitness ==
    /\ output.op = "percent"
    /\ input.num = [n |-> 1234, k |-> 4, e |-> 0] /\ input.decimals = 1
    /\ output.text = <<"1", "2", ".", "3", "%">>

(***************************************************************************)
(* C8. format_number(num, decimals=d) renders num with suffix B when       *)
(* |num| >= 1e9, M when 1e6 <= |num| < 1e9, K when 1e3 <= |num| < 1e6 and   *)
(* no suffix otherwise, at d decimals, the threshold taken on the absolute *)
(* value and the sign kept: what is printed before the suffix has d digits *)
(* after the point and is |num| / divisor rounded to d decimals.           *)
(***************************************************************************)
FormatNumberSuffix ==
    output.op = "format" =>
        LET num == input.num
            d == input.decimals
            abs_num == IF num < 0 THEN 0 - num ELSE num
            text == output.text
            divisor == IF abs_num >= 1000000000 THEN 1000000000
                       ELSE IF abs_num >= 1000000 THEN 1000000
                       ELSE IF abs_num >= 1000 THEN 1000 ELSE 1
            suffix == IF divisor = 1000000000 THEN <<"B">>
                      ELSE IF divisor = 1000000 THEN <<"M">>
                      ELSE IF divisor = 1000 THEN <<"K">> ELSE <<>>
            body == SubSeq(text, 1, Len(text) - Len(suffix))
        IN  /\ SubSeq(text, Len(text) - Len(suffix) + 1, Len(text)) = suffix
            /\ body[Len(body)] \in Range(DigitChars)
            /\ (body[1] = "-") <=> (num < 0)
            /\ IF d = 0 THEN "." \notin Range(body)
               ELSE /\ Len(body) > d + 1
                    /\ body[Len(body) - d] = "."
                    /\ \A i \in 1..Len(body) : body[i] = "." => i = Len(body) - d
            /\ BCmp(BMulSmall(BAbsDiff(BMul(ParseDigits(body), BFromInt(divisor)),
                                       BMul(BFromInt(abs_num), BFromInt(Pow(10, d)))), 2),
                    BFromInt(divisor)) <= 0
            /\ (num = 999 /\ d = 0) => text = <<"9", "9", "9">>
            /\ (num = 1500 /\ d = 1) => text = <<"1", ".", "5", "K">>
            /\ (num = 2300000 /\ d = 0) => text = <<"2", "M">>
            /\ (num = -5000 /\ d = 0) => text = <<"-", "5", "K">>

\* A negative number above the K threshold has been formatted.
FormatNumberSuffixWitness ==
    /\ output.op = "format"
    /\ input.num = -5000 /\ input.decimals = 0
    /\ output.text = <<"-", "5", "K">>

(***************************************************************************)
(* page_modules/ml_evaluation.py section 3 and utils/visualizations.py      *)
(* create_roc_curve_plot: sklearn.metrics.roc_curve and auc on the          *)
(* actual_converted and predicted_probability columns.  A score is the     *)
(* rank of its value: roc_curve only compares scores.                      *)
(***************************************************************************)
MaxTies == 3
ScoreLevels == 1..4

\* The lead table with c[l] rows of score l for every level l from 'from' on,
\* in increasing order of the score; the rows above level k are positive.
RECURSIVE TieBlocks(_, _, _)
TieBlocks(c, k, from) ==
    IF from \notin ScoreLevels THEN <<>>
    ELSE [i \in 1..c[from] |-> [actual |-> IF from > k THEN 1 ELSE 0, score |-> from]]
             \o TieBlocks(c, k, from + 1)

RocTables ==
    (SeqsUpTo([actual : Labels, score : {1, 2}], MaxLeads)
        \cup {TieBlocks(c, k, 1) : c \in [ScoreLevels -> 0..MaxTies], k \in ScoreLevels})
    \ {<<>>}

\* _binary_clf_curve: the rows in decreasing order of the score, one point
\* per distinct score; tps counts the rows with y_true = 1 at or above the
\* score and fps the others at or above it.
binary_clf_curve(t) ==
    LET asc == SortedSeq({t[i].score : i \in 1..Len(t)})
        n == Len(asc)
        thresholds == [j \in 1..n |-> asc[n + 1 - j]]
        tps == [j \in 1..n |->
                   Cardinality({i \in 1..Len(t) :
                                   t[i].score >= thresholds[j] /\ t[i].actual = 1})]
        fps == [j \in 1..n |->
                   Cardinality({i \in 1..Len(t) : t[i].score >= thresholds[j]}) - tps[j]]
    IN  [fps |-> fps, tps |-> tps]

\* fps / fps[-1], or NaN throughout when fps[-1] <= 0 (a warning, no error).
Rates(c) ==
    IF c[Len(c)] <= 0 THEN [j \in 1..Len(c) |-> FNaN]
    ELSE [j \in 1..Len(c) |-> FDiv(FFromInt(c[j]), <<c[Len(c)]>>)]

\* roc_curve(y_true, y_score) with drop_intermediate=True: of more than two
\* points, the first, the last and those where the second difference of fps
\* or of tps is not zero are kept; then the point (0, 0) is put in front.
roc_curve(t) ==
    LET curve == binary_clf_curve(t)
        n == Len(curve.fps)
        optimal_idxs ==
            IF n > 2
            THEN SortedSeq({i \in 1..n :
                    \/ i = 1
                    \/ i = n
                    \/ curve.fps[i + 1] - 2 * curve.fps[i] + curve.fps[i - 1] # 0
                    \/ curve.tps[i + 1] - 2 * curve.tps[i] + curve.tps[i - 1] # 0})
            ELSE SortedSeq(1..n)
        fps == <<0>> \o [j \in 1..Len(optimal_idxs) |-> curve.fps[optimal_idxs[j]]]
        tps == <<0>> \o [j \in 1..Len(optimal_idxs) |-> curve.tps[optimal_idxs[j]]]
    IN  [fpr |-> Rates(fps), tpr |-> Rates(tps)]

\* np.trapz(y, x) over the first n intervals: (diff(x) * (y[1:] + y[:-1]) / 2.0)
\* summed from the left (numpy adds fewer than eight terms one after another).
RECURSIVE trapz(_, _, _)
trapz(y, x, n) ==
    IF n = 0 THEN FZero
    ELSE LET term == FMul(FSub(x[n + 1], x[n]), FAdd(y[n + 1], y[n]))
         IN  FAdd(trapz(y, x, n - 1),
                  IF term \in {FNaN, FZero} THEN term ELSE FDiv(term, <<2>>))

\* auc(x, y): x never decreases here, so the direction is 1.
auc(x, y) == trapz(y, x, Len(x) - 1)

\* A variant that hands the two rates to auc in the other order.
create_roc_curve_plot_swapped(t) ==
    [kind |-> "curve", fpr |-> roc_curve(t).fpr, tpr |-> roc_curve(t).tpr,
     roc_auc |-> auc(roc_curve(t).tpr, roc_curve(t).fpr)]

\* create_roc_curve_plot(y_true, y_pred_proba): the curve drawn and roc_auc.
create_roc_curve_plot(t) ==
    [kind |-> "curve", fpr |-> roc_curve(t).fpr, tpr |-> roc_curve(t).tpr,
     roc_auc |-> auc(roc_curve(t).fpr, roc_curve(t).tpr)]

\* The text of st.metric("AUC-ROC Score", f"{roc_auc:.3f}").
auc_metric(roc_auc) ==
    IF roc_auc = FNaN THEN <<"n", "a", "n">> ELSE FormatFixed(FALSE, roc_auc, 3)

InitRoc ==
    /\ InitDashboard
    /\ input \in [table : RocTables]
    /\ output = Idle

ShowRocCurve ==
    /\ output = Idle
    /\ output' = [op |-> "roc",
                  result |-> create_roc_curve_plot(input.table),
                  metric |-> auc_metric(create_roc_curve_plot(input.table).roc_auc)]
    /\ UNCHANGED <<page, pc, shown, importError, heap, frame, firstLoad, disk, reads, input>>

SpecRoc == InitRoc /\ [][ShowRocCurve]_vars

SingleClass(t) == Cardinality({t[i].actual : i \in 1..Len(t)}) = 1

\* Both classes occur and every positive row scores above every negative row.
Separated(t) ==
    /\ ~SingleClass(t)
    /\ \A i, j \in 1..Len(t) :
           (t[i].actual = 1 /\ t[j].actual = 0) => t[i].score > t[j].score

(***************************************************************************)
(* C9. When all actual labels are identical, the ROC routine fails with a  *)
(* single-class error: the page gets no curve and no AUC value.            *)
(***************************************************************************)
SingleClassFails ==
    (output.op = "roc" /\ SingleClass(input.table)) => output.result.kind = "error"

(***************************************************************************)
(* C10 as stated.  For every lead table with both classes in which every   *)
(* positive row's score is above every negative row's score, the AUC is    *)
(* exactly 1.0.                                                            *)
(***************************************************************************)
SeparatedAucIsOne ==
    (output.op = "roc" /\ Separated(input.table))
        => output.result.roc_auc = FFromInt(1)

(***************************************************************************)
(* C10 as amended.  For every such table in which, besides, no two         *)
(* negative rows have the same score, the AUC is exactly 1.0.              *)
(***************************************************************************)
SeparatedDistinctAucIsOne ==
    LET t == input.table
    IN  (/\ output.op = "roc"
         /\ Separated(t)
         /\ \A i, j \in 1..Len(t) :
                (i # j /\ t[i].actual = 0 /\ t[j].actual = 0) => t[i].score # t[j].score)
            => output.result.roc_auc = FFromInt(1)

\* actual = [0, 0, 1, 1] with scores 0.1 < 0.2 < 0.8 < 0.9 has been plotted.
SeparatedDistinctAucIsOneWitness ==
    /\ output.op = "roc"
    /\ input.table = <<[actual |-> 0, score |-> 1], [actual |-> 0, score |-> 2],
                       [actual |-> 1, score |-> 3], [actual |-> 1, score |-> 4]>>
    /\ output.result.roc_auc = FFromInt(1)
    /\ output.metric = <<"1", ".", "0", "0", "0">>

(***************************************************************************)
(* utils/data_loader.py: the eleven cached loaders and load_all_data, with *)
(* a backing file that changes on disk between calls.                      *)
(***************************************************************************)
MaxReads == 2

\* What can be found in the place of a backing file: the shipped file, a
\* file with other rows, no file, a file of zero bytes, a file with rows
\* longer than its header, with rows shorter than its header, or with a
\* header and no rows.
Files == {"v1", "v2", "missing", "empty", "long_rows", "short_rows", "header_only"}

\* pd.read_csv(path): the rows read, or the exception raised.  Short rows
\* are filled up with NaN and a header alone gives a table of no rows.
read_rows(file) ==
    CASE file = "missing" -> [kind |-> "error", exception |-> "FileNotFoundError"]
      [] file = "empty" -> [kind |-> "error", exception |-> "EmptyDataError"]
      [] file = "long_rows" -> [kind |-> "error", exception |-> "ParserError"]
      [] file = "short_rows" -> [kind |-> "rows", rows |-> "nan_filled"]
      [] file = "header_only" -> [kind |-> "rows", rows |-> "no_rows"]
      [] OTHER -> [kind |-> "rows", rows |-> file]

\* The body of load_<ds>(): read_csv, and for campaign_performance the
\* conversion of the date column; no exception is caught.
load_dataset(ds, file) ==
    IF read_rows(file).kind = "error" THEN read_rows(file)
    ELSE [kind |-> "table", dataset |-> ds, rows |-> read_rows(file).rows,
          date |-> IF ds = "campaign_performance" THEN "datetime64" ELSE "object"]

\* A variant without memoisation: every call runs the body.
uncached_call(c, ds, file) ==
    [heap |-> IF load_dataset(ds, file).kind = "table"
              THEN [c.heap EXCEPT ![CacheRef(ds)] = load_dataset(ds, file)] ELSE c.heap,
     reads |-> [c.reads EXCEPT ![ds] = @ + 1],
     firstLoad |-> IF load_dataset(ds, file).kind = "table" /\ c.firstLoad[ds] = NoTable
                   THEN [c.firstLoad EXCEPT ![ds] = load_dataset(ds, file)]
                   ELSE c.firstLoad,
     read |-> c.read \cup {ds},
     result |-> load_dataset(ds, file)]

\* A call of load_<ds>() through @st.cache_data, from the state c of the
\* process: a stored result is returned without running the body; otherwise
\* the body runs, and its result is stored unless it raised.
cached_call(c, ds, file) ==
    IF c.heap[CacheRef(ds)] # NoTable
    THEN [c EXCEPT !.result = c.heap[CacheRef(ds)]]
    ELSE [heap |-> IF load_dataset(ds, file).kind = "table"
                   THEN [c.heap EXCEPT ![CacheRef(ds)] = load_dataset(ds, file)] ELSE c.heap,
          reads |-> [c.reads EXCEPT ![ds] = @ + 1],
          firstLoad |-> IF load_dataset(ds, file).kind = "table" /\ c.firstLoad[ds] = NoTable
                        THEN [c.firstLoad EXCEPT ![ds] = load_dataset(ds, file)]
                        ELSE c.firstLoad,
          read |-> c.read \cup {ds},
          result |-> load_dataset(ds, file)]

\* The state of the process a call starts from.
Process == [heap |-> heap, reads |-> reads, firstLoad |-> firstLoad,
            read |-> {}, result |-> Idle]

\* load_all_data(): the dict display calls the loaders in order from the
\* i-th on; the first exception ends it and no dict is built.
RECURSIVE load_all_data(_, _, _)
load_all_data(c, tables, i) ==
    IF i > Len(LoadOrder)
    THEN [c EXCEPT !.result = [kind |-> "mapping", tables |-> tables]]
    ELSE LET n == cached_call(c, LoadOrder[i], disk[LoadOrder[i]])
         IN  IF n.result.kind = "error" THEN n
             ELSE load_all_data(n, (LoadOrder[i] :> n.result) @@ tables, i + 1)

InitLoader ==
    /\ InitDashboard
    /\ input \in [name : AllDatasets]
    /\ output = Idle

\* The file of the dataset under test is replaced, removed or damaged.
ChangeFile(file) ==
    /\ file # disk[input.name]
    /\ disk' = [disk EXCEPT ![input.name] = file]
    /\ output' = Idle
    /\ UNCHANGED <<page, pc, shown, importError, heap, frame, firstLoad, reads, input>>

\* Whether a call may still read the file under test.
MayRead == heap[CacheRef(input.name)] # NoTable \/ reads[input.name] < MaxReads

\* The process calls load_<input.name>().
CallLoader ==
    /\ MayRead
    /\ LET n == cached_call(Process, input.name, disk[input.name])
       IN  /\ heap' = n.heap
           /\ reads' = n.reads
           /\ firstLoad' = n.firstLoad
           /\ output' = [op |-> "load", name |-> input.name, read |-> n.read,
                         result |-> n.result]
    /\ UNCHANGED <<page, pc, shown, importError, frame, disk, input>>

\* The process calls load_all_data().
CallLoadAll ==
    /\ MayRead
    /\ LET n == load_all_data(Process, <<>>, 1)
       IN  /\ heap' = n.heap
           /\ reads' = n.reads
           /\ firstLoad' = n.firstLoad
           /\ output' = [op |-> "load_all", name |-> input.name, read |-> n.read,
                         result |-> n.result]
    /\ UNCHANGED <<page, pc, shown, importError, frame, disk, input>>

SpecLoader ==
    InitLoader /\ [][(\E file \in Files : ChangeFile(file)) \/ CallLoader \/ CallLoadAll]_vars

(***************************************************************************)
(* C11. For each of the eleven loaders, once a call has returned a table,  *)
(* every later call in the process returns an equal table, also through    *)
(* load_all_data, and the backing file is not read again, whatever has     *)
(* become of the file since.                                               *)
(***************************************************************************)
SecondCallFromCache ==
    /\ [](/\ (output.op = "load" /\ firstLoad[output.name] # NoTable)
                => output.result = firstLoad[output.name]
          /\ (output.op = "load_all" /\ output.result.kind = "mapping")
                => \A ds \in AllDatasets : output.result.tables[ds] = firstLoad[ds])
    /\ [][\A ds \in AllDatasets : firstLoad[ds] # NoTable => reads'[ds] = reads[ds]]_vars

\* The file was read once, is gone now, and the call just made returned the
\* table of the first call.
SecondCallFromCacheWitness ==
    /\ output.op = "load"
    /\ disk[input.name] = "missing"
    /\ reads[input.name] = 1
    /\ output.read = {}
    /\ output.result.kind = "table" /\ output.result.rows = "v1"

(***************************************************************************)
(* C12. A load that reads a missing or malformed backing file fails with   *)
(* an error: no loader returns an empty or default table in its place, and *)
(* load_all_data returns all eleven named tables or fails as a whole.      *)
(***************************************************************************)
UnreadableFileFails ==
    /\ (output.op \in {"load", "load_all"}
            /\ input.name \in output.read /\ disk[input.name] \notin {"v1", "v2"})
          => output.result.kind = "error"
    /\ output.op = "load" => output.result.kind \in {"table", "error"}
    /\ output.op = "load_all" =>
          \/ output.result.kind = "error"
          \/ /\ output.result.kind = "mapping"
             /\ DOMAIN output.result.tables = AllDatasets

(***************************************************************************)
(* C18. When cumulative conversions are computed, rows with equal dates    *)
(* are accumulated in their original table order (the sort by date is      *)
(* stable): the sorted table, the cumulative column and the values per     *)
(* (date, channel) are those of the stable sort of the filtered table.     *)
(***************************************************************************)
CumulativeOrderStable ==
    output.op = "cumulative" =>
        LET filtered == RegionFiltered(input.table, input.region_filter)
            stable == CHOOSE p \in SortOrders(Column(filtered, "date"), TRUE) :
                          \A i, j \in 1..Len(filtered) :
                              (i < j /\ filtered[p[i]].date = filtered[p[j]].date)
                                  => p[i] < p[j]
        IN  /\ output.sorted = Reorder(filtered, stable)
            /\ output.agg = cumulative_agg(Reorder(filtered, stable),
                                           groupby_cumsum(Reorder(filtered, stable)))

(***************************************************************************)
(* pages/campaign_analytics.py section 1 and page_modules/executive_       *)
(* overview.py: the revenue trend.  The date column holds calendar days; a *)
(* day is its number counted from Monday 2024-01-01 = 1.                   *)
(***************************************************************************)
MaxTrendRows == 2

\* The calendar of 2024 and 2025: year, month, ISO weekday (1 = Monday) and
\* day of the year of day n, and the first and last day of its month.
Calendar(n) ==
    LET year == IF n <= 366 THEN 2024 ELSE 2025
        before == IF n <= 366 THEN 0 ELSE 366
        lengths == <<31, IF year = 2024 THEN 29 ELSE 28, 31, 30, 31, 30,
                     31, 31, 30, 31, 30, 31>>
        month == CHOOSE m \in 1..12 :
                     /\ n - before > SumSeq(SubSeq(lengths, 1, m - 1))
                     /\ n - before <= SumSeq(SubSeq(lengths, 1, m))
    IN  [year |-> year, month |-> month, weekday |-> ((n - 1) % 7) + 1,
         day_of_year |-> n - before,
         month_start |-> before + SumSeq(SubSeq(lengths, 1, month - 1)) + 1,
         month_end |-> before + SumSeq(SubSeq(lengths, 1, month))]

\* The rows of the campaign table, dated Thu 2024-02-01, Mon 2024-02-05,
\* Mon 2024-12-30 or Wed 2025-01-01.
TrendRows == [date : {32, 36, 365, 367}, channel : Channels, revenue : {5, 10}]

\* The selections of the two filter widgets, besides the default ones.
\* st.date_input with a pair as value returns the dates picked so far: one
\* date while the user is picking the range, then two.
PickedFilters ==
    {[show_channels |-> {}, date_range |-> <<32, 365>>],
     [show_channels |-> {"ads"}, date_range |-> <<36, 367>>]}
    \cup [show_channels : {Channels},
          date_range : {<<32>>, <<36, 36>>, <<32, 365>>, <<36, 367>>}]

\* value=(campaign_df['date'].min(), campaign_df['date'].max())
DefaultRange(t) ==
    << CHOOSE d \in Range(Column(t, "date")) : \A e \in Range(Column(t, "date")) : d <= e,
       CHOOSE d \in Range(Column(t, "date")) : \A e \in Range(Column(t, "date")) : d >= e >>

\* A variant that leaves out the rows dated on the end of the range.
trend_filter_exclusive(t, show_channels, date_range) ==
    IF Len(date_range) < 2 THEN IndexError
    ELSE [kind |-> "table",
          rows |-> SelectSeq(t, LAMBDA r : /\ r.channel \in show_channels
                                           /\ r.date >= date_range[1]
                                           /\ r.date < date_range[2])]

\* Lines 62-66: the boolean mask; date_range[1] raises IndexError when only
\* one date is picked.
trend_filter(t, show_channels, date_range) ==
    IF Len(date_range) < 2 THEN IndexError
    ELSE [kind |-> "table",
          rows |-> SelectSeq(t, LAMBDA r : /\ r.channel \in show_channels
                                           /\ r.date >= date_range[1]
                                           /\ r.date <= date_range[2])]

\* The label of the bucket of day n: pd.Grouper / resample with freq='W'
\* (weeks ending on Sunday, labelled by that Sunday) and freq='M' (months,
\* labelled by their last day).
BucketDate(agg_level, n) ==
    CASE agg_level = "Weekly" -> n + (6 - ((n - 1) % 7))
      [] agg_level = "Monthly" -> Calendar(n).month_end
      [] OTHER -> n

\* A variant that takes the first value of each group.
groupby_first(t, keys) ==
    [k \in Range(keys) |->
        t[CHOOSE i \in 1..Len(t) : keys[i] = k /\ \A j \in 1..i - 1 : keys[j] # k].revenue]

\* groupby(keys)['revenue'].sum(): one value per distinct key.
groupby_sum(t, keys) ==
    [k \in Range(keys) |->
        SumSeq(Column(SelectSeq([i \in 1..Len(t) |-> [key |-> keys[i], v |-> t[i].revenue]],
                                LAMBDA r : r.key = k), "v"))]

\* Lines 68-74 of campaign_analytics.py.
trend_data(t, agg_level) ==
    groupby_sum(t, [i \in 1..Len(t) |-> <<BucketDate(agg_level, t[i].date), t[i].channel>>])

\* The last days of the months of the calendar.
MonthEnds == {Calendar(n).month_end : n \in 1..731}

\* Lines 51-64 of executive_overview.py: the revenue per day, resampled to
\* every week or month from the first day's to the last day's, also those
\* without a row.
daily_revenue(t, agg_level) ==
    LET daily == groupby_sum(t, Column(t, "date"))
        first == BucketDate(agg_level, DefaultRange(t)[1])
        last == BucketDate(agg_level, DefaultRange(t)[2])
    IN  IF agg_level = "Daily" THEN daily
        ELSE [b \in {n \in first..last :
                        IF agg_level = "Weekly" THEN n % 7 = 0 ELSE n \in MonthEnds} |->
                 SumSeq([i \in 1..Len(t) |->
                            IF BucketDate(agg_level, t[i].date) = b
                               /\ \A j \in 1..i - 1 : t[j].date # t[i].date
                            THEN daily[t[i].date] ELSE 0])]

InitTrend ==
    /\ InitDashboard
    /\ \E t \in SeqsUpTo(TrendRows, MaxTrendRows) \ {<<>>} :
         \E f \in PickedFilters
                 \cup [show_channels : {Channels, {"ads"}}, date_range : {DefaultRange(t)}] :
            input \in [table : {t}, agg_level : {"Daily", "Weekly", "Monthly"},
                       show_channels : {f.show_channels}, date_range : {f.date_range}]
    /\ output = Idle

\* campaign_analytics.show, section 1.
ShowRevenueTrend ==
    /\ output = Idle
    /\ LET filtered == trend_filter(input.table, input.show_channels, input.date_range)
       IN  output' = [op |-> "trend", filtered |-> filtered,
                      trend |-> IF filtered.kind = "error" THEN <<>>
                                ELSE trend_data(filtered.rows, input.agg_level)]
    /\ UNCHANGED <<page, pc, shown, importError, heap, frame, firstLoad, disk, reads, input>>

\* executive_overview.show: the revenue KPI and the revenue trend.
ShowOverviewTrend ==
    /\ output = Idle
    /\ output' = [op |-> "overview",
                  total_revenue |-> SumSeq(Column(input.table, "revenue")),
                  trend |-> daily_revenue(input.table, input.agg_level)]
    /\ UNCHANGED <<page, pc, shown, importError, heap, frame, firstLoad, disk, reads, input>>

SpecTrend == InitTrend /\ [][ShowRevenueTrend \/ ShowOverviewTrend]_vars

\* The sum of the values of a function.
RECURSIVE SumValues(_)
SumValues(f) ==
    IF DOMAIN f = {} THEN 0
    ELSE LET k == CHOOSE x \in DOMAIN f : TRUE
         IN  f[k] + SumValues([x \in DOMAIN f \ {k} |-> f[x]])

\* q is t with some rows left out.
IsSubSeq(q, t) ==
    \E f \in [1..Len(q) -> 1..Len(t)] :
        /\ \A i \in 1..Len(q) : q[i] = t[f[i]]
        /\ \A i \in 1..Len(q) - 1 : f[i] < f[i + 1]

(***************************************************************************)
(* C13. In the revenue trend of Campaign Analytics a row is kept by the    *)
(* filter if and only if its channel is one of the selected channels and   *)
(* its date is on or after the range start and on or before the range end; *)
(* with all channels and the full date range selected the filtered table   *)
(* is the whole table.                                                     *)
(***************************************************************************)
FilterKeepsConjunction ==
    (output.op = "trend" /\ output.filtered.kind = "table") =>
        LET t == input.table
            kept == output.filtered.rows
        IN  /\ IsSubSeq(kept, t)
            /\ \A r \in TrendRows :
                  Count(kept, {r}) =
                      IF /\ r.channel \in input.show_channels
                         /\ input.date_range[1] <= r.date
                         /\ r.date <= input.date_range[2]
                      THEN Count(t, {r}) ELSE 0
            /\ (/\ Range(Column(t, "channel")) \subseteq input.show_channels
                /\ input.date_range = DefaultRange(t))
                  => kept = t

\* Of two rows of a selected channel, one lies in the date range and is
\* kept, the other lies after it and is dropped.
FilterKeepsConjunctionWitness ==
    /\ output.op = "trend" /\ output.filtered.kind = "table"
    /\ input.show_channels = Channels
    /\ input.date_range = <<32, 365>>
    /\ Len(input.table) = 2 /\ Len(output.filtered.rows) = 1
    /\ output.filtered.rows[1].date = 365
    /\ \E i \in 1..2 : input.table[i].date = 367

IsoWeek(n) ==
    LET c == Calendar(n)
        w == (c.day_of_year - c.weekday + 10) \div 7
        jan1 == Calendar(n - c.day_of_year + 1).weekday
        weeks == IF jan1 = 4 \/ (jan1 = 3 /\ c.year = 2024) THEN 53 ELSE 52
    IN  IF w > weeks THEN <<c.year + 1, 1>> ELSE <<c.year, w>>

(***************************************************************************)
(* C17. In weekly aggregation two rows fall into the same bucket if and    *)
(* only if their dates lie in the same ISO week, in monthly aggregation if *)
(* and only if they lie in the same calendar month, and the date of a      *)
(* monthly bucket is the date truncated to the month (its first day).      *)
(***************************************************************************)
BucketsAreCalendarPeriods ==
    (output.op = "trend" /\ output.filtered.kind = "table") =>
        LET rows == output.filtered.rows
            Period(r) == IF input.agg_level = "Weekly" THEN IsoWeek(r.date)
                         ELSE IF input.agg_level = "Monthly"
                         THEN <<Calendar(r.date).year, Calendar(r.date).month>>
                         ELSE r.date
        IN  /\ Cardinality(DOMAIN output.trend)
                  = Cardinality({<<Period(rows[i]), rows[i].channel>> : i \in 1..Len(rows)})
            /\ \A i \in 1..Len(rows) :
                  \E k \in DOMAIN output.trend :
                      /\ k[2] = rows[i].channel
                      /\ output.trend[k] =
                            SumSeq(Column(SelectSeq(rows,
                                LAMBDA r : Period(r) = Period(rows[i])
                                           /\ r.channel = rows[i].channel), "revenue"))
            /\ input.agg_level = "Monthly" =>
                  DOMAIN output.trend =
                      {<<Calendar(rows[i].date).month_start, rows[i].channel>> :
                           i \in 1..Len(rows)}

(***************************************************************************)
(* page_modules/customer_insights.py section 6: the customer segment       *)
(* summary.                                                                *)
(***************************************************************************)
MaxCustomers == 3

CustomerRows == [customer_segment : {"Budget", "Premium", "Regular"}, age : {20, 40}]

\* A variant that cuts the percentage off after the first decimal.
percent_floor(count, total) ==
    LET y == FMul(FMul(FDiv(FFromInt(count), <<total>>), FFromInt(100)), FFromInt(10))
    IN  IF y = FZero THEN 0 ELSE Limb(BShr(y.m, 0 - y.e), 1)

\* (Count / len(customer_df) * 100).round(1), in tenths of a percent: the
\* double is multiplied by 10 and rounded to the nearest integer, ties to even.
percent_of_total(count, total) ==
    LET y == FMul(FMul(FDiv(FFromInt(count), <<total>>), FFromInt(100)), FFromInt(10))
    IN  Limb(FixedDigits(y, 0), 1)

\* Lines 191-201: one row per segment that occurs, with the number of its
\* rows and that number's share of all rows.
segment_summary(t) ==
    [g \in Range(Column(t, "customer_segment")) |->
        [Count |-> Count(t, {r \in CustomerRows : r.customer_segment = g}),
         percent |-> percent_of_total(
                         Count(t, {r \in CustomerRows : r.customer_segment = g}), Len(t))]]

InitSegments ==
    /\ InitDashboard
    /\ input \in [table : SeqsUpTo(CustomerRows, MaxCustomers) \ {<<>>}]
    /\ output = Idle

ShowSegmentSummary ==
    /\ output = Idle
    /\ output' = [op |-> "segments", summary |-> segment_summary(input.table)]
    /\ UNCHANGED <<page, pc, shown, importError, heap, frame, firstLoad, disk, reads, input>>

SpecSegments == InitSegments /\ [][ShowSegmentSummary]_vars

MaxGeoRows == 2

GeoRows ==
    [state : {"Kerala", "Punjab"}, revenue : {1, 2}, customers : {1, 2},
     market_penetration : {1, 2}, yoy_growth : {1, 2}]

\* A variant that returns the last row holding the maximum.
idxmax_last(col) ==
    CHOOSE i \in 1..Len(col) :
        /\ \A j \in 1..Len(col) : col[j] <= col[i]
        /\ \A j \in i + 1..Len(col) : col[j] # col[i]

\* Series.idxmax(): the label of the first row holding the maximum.
idxmax(col) ==
    CHOOSE i \in 1..Len(col) :
        /\ \A j \in 1..Len(col) : col[j] <= col[i]
        /\ \A j \in 1..i - 1 : col[j] # col[i]

\* Series.idxmin(): the label of the first row holding the minimum.
idxmin(col) ==
    CHOOSE i \in 1..Len(col) :
        /\ \A j \in 1..Len(col) : col[j] >= col[i]
        /\ \A j \in 1..i - 1 : col[j] # col[i]

InitGeo ==
    /\ InitDashboard
    /\ input \in [table : SeqsUpTo(GeoRows, MaxGeoRows) \ {<<>>}]
    /\ output = Idle

\* Lines 53-67 and 102-114: geo_df.loc[geo_df[metric].idxmax(), 'state'].
ShowTopStates ==
    /\ output = Idle
    /\ LET t == input.table
       IN  output' =
              [op |-> "top_states",
               revenue |-> t[idxmax(Column(t, "revenue"))].state,
               customers |-> t[idxmax(Column(t, "customers"))].state,
               market_penetration |-> t[idxmax(Column(t, "market_penetration"))].state,
               highest_growth |-> t[idxmax(Column(t, "yoy_growth"))].state,
               lowest_growth |-> t[idxmin(Column(t, "yoy_growth"))].state]
    /\ UNCHANGED <<page, pc, shown, importError, heap, frame, firstLoad, disk, reads, input>>

SpecGeo == InitGeo /\ [][ShowTopStates]_vars

(***************************************************************************)
(* C16. Each 'top state' lookup of the Geographic page shows the state of  *)
(* a row whose metric is the column's maximum (minimum for the lowest      *)
(* growth), and of the rows that tie the first one in table order.         *)
(***************************************************************************)
TopStateIsFirstExtreme ==
    output.op = "top_states" =>
        LET t == input.table
            FirstBest(c, sign, state) ==
                \E i \in 1..Len(t) :
                    /\ state = t[i].state
                    /\ \A j \in 1..Len(t) : sign * t[j][c] <= sign * t[i][c]
                    /\ \A j \in 1..Len(t) : t[j][c] = t[i][c] => i <= j
        IN  /\ FirstBest("revenue", 1, output.revenue)
            /\ FirstBest("customers", 1, output.customers)
            /\ FirstBest("market_penetration", 1, output.market_penetration)
            /\ FirstBest("yoy_growth", 1, output.highest_growth)
            /\ FirstBest("yoy_growth", -1, output.lowest_growth)

\* Two states tie on revenue and the first one is shown; they differ on
\* growth and the lowest is the second.
TopStateIsFirstExtremeWitness ==
    /\ output.op = "top_states"
    /\ Len(input.table) = 2
    /\ input.table[1].state = "Kerala" /\ input.table[2].state = "Punjab"
    /\ input.table[1].revenue = input.table[2].revenue
    /\ input.table[1].yoy_growth > input.table[2].yoy_growth
    /\ output.revenue = "Kerala"
    /\ output.lowest_growth = "Punjab"

(***************************************************************************)
(* C19. A page run works on the tables a first run in a fresh process      *)
(* would work on, whatever pages were run before, by whichever session and *)
(* however often: the table it loads is the loader's table, the table it   *)
(* renders from is the page's assignments applied to that table, and the   *)
(* outcome of the import depends on the selected option alone.             *)
(***************************************************************************)
RenderIndependentOfHistory ==
    \A s \in Sessions :
        /\ pc[s] = "assign" => heap[frame[s]] = Loader(PageDataset(page[s]))
        /\ pc[s] = "render" =>
              heap[frame[s]] = PageAssign(page[s], Loader(PageDataset(page[s])))
        /\ page[s] # NoPage => importError[s] = ~ImportSucceeds(page[s])

\* A session renders Campaign Analytics while the other has got as far on
\* the same page, after the two other pages were run in the process.
RenderIndependentOfHistoryWitness ==
    /\ reads["product_sales"] = 1 /\ reads["geographic_data"] = 1
    /\ \A s \in Sessions :
          /\ page[s] = "Campaign Analytics" /\ pc[s] = "render"
          /\ "week" \in DOMAIN heap[frame[s]]
    /\ "week" \notin DOMAIN heap[CacheRef("campaign_performance")]

(***************************************************************************)
(* utils/visualizations.py: create_learning_curve_plot, and section 5 of   *)
(* the ML Evaluation page.  Column names are sequences of characters, so   *)
(* that lower(), the substring tests and title() are computed.             *)
(***************************************************************************)
MaxColumns == 3

Lowercase == <<"a", "b", "c", "d", "e", "f", "g", "h", "i", "j", "k", "l", "m", "n", "o", "p", "q", "r", "s", "t", "u", "v", "w", "x", "y", "z">>
Uppercase == <<"A", "B", "C", "D", "E", "F", "G", "H", "I", "J", "K", "L", "M", "N", "O", "P", "Q", "R", "S", "T", "U", "V", "W", "X", "Y", "Z">>

\* str.lower().
lower(str) ==
    [i \in 1..Len(str) |->
        IF \E k \in 1..26 : Uppercase[k] = str[i]
        THEN Lowercase[CHOOSE k \in 1..26 : Uppercase[k] = str[i]]
        ELSE str[i]]

\* sub in str.
contains(str, sub) ==
    \E i \in 0..(Len(str) - Len(sub)) : SubSeq(str, i + 1, i + Len(sub)) = sub

\* str.replace('_', ' ').title(): a letter is upper-cased after a character
\* that is not a letter and lower-cased after a letter.
title(str) ==
    LET spaced == [i \in 1..Len(str) |-> IF str[i] = "_" THEN " " ELSE str[i]]
        low == lower(spaced)
        IsLetter(c) == \E k \in 1..26 : Lowercase[k] = c
    IN  [i \in 1..Len(str) |->
            IF IsLetter(low[i]) /\ (i = 1 \/ ~IsLetter(low[i - 1]))
            THEN Uppercase[CHOOSE k \in 1..26 : Lowercase[k] = low[i]]
            ELSE low[i]]

ColumnNames ==
    { <<"s", "e", "t", "_", "s", "i", "z", "e">>,
      <<"T", "r", "a", "i", "n", "_", "S", "c", "o", "r", "e">>,
      <<"v", "a", "l", "_", "s", "c", "o", "r", "e">>,
      <<"t", "r", "a", "i", "n", "_", "v", "a", "l", "_", "s", "c", "o", "r", "e">>,
      <<"f", "o", "l", "d">> }

\* The learning-curve table as read_csv returns it: distinct column names,
\* a dtype per column, and a number of rows.
LearningTables ==
    UNION {[columns : {c}, dtype : [Range(c) -> {"float64", "object"}],
            rows : {0, 2}]
           : c \in {q \in SeqsUpTo(ColumnNames, MaxColumns) :
                       \A i, j \in 1..Len(q) : i # j => q[i] # q[j]}}

\* A falsy column name: None.
None == <<>>

\* Lines 515-522: the loop over data.columns; a later match replaces an
\* earlier one.
RECURSIVE find_columns(_, _, _)
find_columns(columns, i, found) ==
    IF i > Len(columns) THEN found
    ELSE LET col == columns[i]
             col_lower == lower(col)
         IN  find_columns(columns, i + 1,
                 IF \/ contains(col_lower, <<"t", "r", "a", "i", "n", "i", "n", "g", "_", "s", "e", "t">>)
                    \/ contains(col_lower, <<"t", "r", "a", "i", "n", "_", "s", "i", "z", "e">>)
                    \/ contains(col_lower, <<"s", "e", "t", "_", "s", "i", "z", "e">>)
                 THEN [found EXCEPT !.x_col = col]
                 ELSE IF /\ contains(col_lower, <<"t", "r", "a", "i", "n">>)
                         /\ contains(col_lower, <<"s", "c", "o", "r", "e">>)
                 THEN [found EXCEPT !.train_col = col]
                 ELSE IF /\ contains(col_lower, <<"v", "a", "l">>)
                         /\ contains(col_lower, <<"s", "c", "o", "r", "e">>)
                 THEN [found EXCEPT !.val_col = col]
                 ELSE found)

\* data[col]: the column as it is in the table.
Series(data, col) == [name |-> col, dtype |-> data.dtype[col], rows |-> data.rows]

Figure(traces, annotations, xaxis_title) ==
    [kind |-> "figure", traces |-> traces, annotations |-> annotations,
     xaxis_title |-> xaxis_title]

\* Lines 506-568.
create_learning_curve_plot(data) ==
    LET n == Len(data.columns)
        found == find_columns(data.columns, 1,
                     [x_col |-> None, train_col |-> None, val_col |-> None])
    IN  IF found.x_col = None /\ n = 0 THEN IndexError
        ELSE
        LET x_col == IF found.x_col = None THEN data.columns[1] ELSE found.x_col
            train_col == IF found.train_col # None THEN found.train_col
                         ELSE IF n > 1 THEN data.columns[2] ELSE None
            val_col == IF found.val_col # None THEN found.val_col
                       ELSE IF n > 2 THEN data.columns[3] ELSE None
        IN  IF train_col = None \/ val_col = None
            THEN Figure(<<>>, <<"Insufficient data for learning curve visualization">>, None)
            ELSE Figure(<<[name |-> "Training Score", x |-> Series(data, x_col),
                           y |-> Series(data, train_col)],
                          [name |-> "Validation Score", x |-> Series(data, x_col),
                           y |-> Series(data, val_col)]>>,
                        <<>>, title(x_col))

InitLearning ==
    /\ InitDashboard
    /\ input \in [table : LearningTables]
    /\ output = Idle

\* The function called on the table.
CallLearningCurvePlot ==
    /\ output = Idle
    /\ output' = [op |-> "plot", result |-> create_learning_curve_plot(input.table)]
    /\ UNCHANGED <<page, pc, shown, importError, heap, frame, firstLoad, disk, reads, input>>

\* ml_evaluation.py lines 148-167: DataFrame.empty holds of a table without
\* rows or without columns; an exception of the plot is shown as an error.
ShowLearningCurve ==
    /\ output = Idle
    /\ LET learning_df == input.table
           fig == create_learning_curve_plot(learning_df)
       IN  output' =
              IF learning_df.rows = 0 \/ Len(learning_df.columns) = 0
              THEN [op |-> "section", shown |-> "warning", result |-> Idle]
              ELSE IF fig.kind = "error"
              THEN [op |-> "section", shown |-> "error", result |-> fig]
              ELSE [op |-> "section", shown |-> "chart", result |-> fig]
    /\ UNCHANGED <<page, pc, shown, importError, heap, frame, firstLoad, disk, reads, input>>

SpecLearning == InitLearning /\ [][CallLearningCurvePlot \/ ShowLearningCurve]_vars

NumericColumns(data) == {c \in Range(data.columns) : data.dtype[c] = "float64"}

(***************************************************************************)
(* C20. create_learning_curve_plot fails with an error when the table has  *)
(* fewer than two numeric columns, and otherwise returns a chart whose two *)
(* traces plot columns of the table as they are.                           *)
(***************************************************************************)
LearningCurveNeedsTwoNumeric ==
    output.op = "plot" =>
        LET data == input.table
            fig == output.result
        IN  IF Cardinality(NumericColumns(data)) < 2
            THEN fig.kind = "error"
            ELSE /\ fig.kind = "figure"
                 /\ Len(fig.traces) = 2
                 /\ \A i \in 1..2 :
                       /\ fig.traces[i].x \in {Series(data, c) : c \in Range(data.columns)}
                       /\ fig.traces[i].y \in {Series(data, c) : c \in Range(data.columns)}

(***************************************************************************)
(* C21. For a feature table with a numeric column and a text column, the   *)
(* feature chart without a 'std' column is the bar chart without error     *)
(* bars, and with a 'std' column its error bars are the std values of the  *)
(* rows the bars are drawn from, in the order of the bars.                 *)
(***************************************************************************)
ErrorBarsFollowStdColumn ==
    (/\ output.op = "feature"
     /\ input.table.rows # <<>>
     /\ input.table.numeric # {}
     /\ Range(input.table.columns) \ input.table.numeric # {}) =>
        LET t == input.table
            chart == output.chart
        IN  /\ chart.kind = "bar"
            /\ chart.has_error_x <=> "std" \in Range(t.columns)
            /\ ~chart.has_error_x => chart.error_x = <<>>
            /\ chart.has_error_x =>
                  \E p \in RowOrders(Len(t.rows)) :
                      /\ chart.y = Column(Reorder(t.rows, p), chart.name_col)
                      /\ chart.x = Column(Reorder(t.rows, p), chart.importance_col)
                      /\ chart.error_x = Column(Reorder(t.rows, p), "std")

\* Error bars drawn for rows that the chart's sort has moved.
ErrorBarsFollowStdColumnWitness ==
    /\ output.op = "feature"
    /\ output.chart.kind = "bar"
    /\ output.chart.has_error_x
    /\ output.chart.error_x = <<1, 2, 2>>
    /\ Column(input.table.rows, "std") = <<2, 1, 2>>
    /\ output.chart.x # Column(input.table.rows, "importance")

(***************************************************************************)
(* page_modules/customer_insights.py: show.  The page has no try block:    *)
(* an exception in a section ends the run of the page.                     *)
(***************************************************************************)
\* Lines 31-63 followed by sections 2 to 7.  Series.max() of no rows is
\* NaN, and int(NaN / bin_size) raises ValueError.
customer_insights_show(customer_df, show_segments, bin_size) ==
    LET age_data == SelectSeq(customer_df,
                              LAMBDA row : row.customer_segment \in show_segments)
        ages == {age_data[i].age : i \in 1..Len(age_data)}
    IN  IF age_data = <<>>
        THEN [kind |-> "error", exception |-> "ValueError", rendered |-> <<>>,
              nbins |-> 0]
        ELSE [kind |-> "page", exception |-> "",
              rendered |-> <<1, 2, 3, 4, 5, 6, 7>>,
              nbins |-> (CHOOSE a \in ages : \A b \in ages : b <= a) \div bin_size]

\* The multiselect offers the segments that occur in the table.
InitInsights ==
    /\ InitDashboard
    /\ input \in {i \in [table : SeqsUpTo(CustomerRows, MaxCustomers),
                         show_segments : SUBSET {"Budget", "Premium", "Regular"},
                         bin_size : {1, 5, 20}] :
                     i.show_segments \subseteq
                        {i.table[k].customer_segment : k \in 1..Len(i.table)}}
    /\ output = Idle

ShowCustomerInsights ==
    /\ output = Idle
    /\ output' = [op |-> "insights",
                  page |-> customer_insights_show(input.table, input.show_segments,
                                                  input.bin_size)]
    /\ UNCHANGED <<page, pc, shown, importError, heap, frame, firstLoad, disk, reads, input>>

SpecInsights == InitInsights /\ [][ShowCustomerInsights]_vars

(***************************************************************************)
(* C23. A failure in preparing the age histogram is confined to that       *)
(* chart: sections 2 to 7 of the Customer Insights page are rendered in    *)
(* the same interaction.                                                   *)
(***************************************************************************)
HistogramFailureConfined ==
    output.op = "insights" => (2..7) \subseteq Range(output.page.rendered)

(***************************************************************************)
(* page_modules/executive_overview.py: Channel Performance and the         *)
(* Campaign Performance Summary.                                           *)
(***************************************************************************)
MaxOverviewRows == 2

OverviewColumns == {"date", "channel", "revenue", "conversions", "roas", "ctr"}

OverviewRows ==
    [channel : Channels, revenue : {5, 10}, conversions : {1, 2}, roas : {1, 3}]

\* groupby('channel') sorts the group keys: the channels of the table in
\* string order.
group_keys(t) ==
    SelectSeq(<<"ads", "email">>, LAMBDA c : \E i \in 1..Len(t) : t[i].channel = c)

\* groupby('channel')[col].sum(), one value per key in the order of the keys.
channel_sum(t, col) ==
    [k \in 1..Len(group_keys(t)) |->
        SumSeq(Column(SelectSeq(t, LAMBDA r : r.channel = group_keys(t)[k]), col))]

\* Lines 120-128: groupby('channel')['revenue'].sum().idxmax() and .max().
top_channel(t) ==
    LET sums == channel_sum(t, "revenue")
    IN  [channel |-> group_keys(t)[idxmax(sums)], revenue |-> sums[idxmax(sums)]]

\* Lines 82-112: the chart of the selected metric.  Selecting a column that
\* the table does not have raises KeyError, which the except clause shows.
channel_performance(t, metric) ==
    LET metric_labels == {"revenue", "conversions", "roas"}
    IN  IF metric = "roas"
        THEN [kind |-> "bar", agg |-> "mean", column |-> "roas",
              y |-> group_keys(t),
              x |-> [k \in 1..Len(group_keys(t)) |->
                        [sum |-> channel_sum(t, "roas")[k],
                         count |-> Len(SelectSeq(t, LAMBDA r : r.channel = group_keys(t)[k]))]]]
        ELSE IF metric \notin OverviewColumns THEN KeyError(metric)
        ELSE IF t = <<>> THEN [kind |-> "warning", column |-> metric]
        ELSE IF metric \notin metric_labels THEN KeyError(metric)
        ELSE [kind |-> "bar", agg |-> "sum", column |-> metric,
              y |-> group_keys(t), x |-> channel_sum(t, metric)]

InitOverview ==
    /\ InitDashboard
    /\ input \in [table : SeqsUpTo(OverviewRows, MaxOverviewRows) \ {<<>>}]
    /\ output = Idle

ShowChannelPerformance ==
    /\ output = Idle
    /\ \E metric \in {"Revenue", "Conversions", "ROAS"} :
          output' = [op |-> "channel_performance", metric |-> metric,
                     chart |-> channel_performance(input.table, metric)]
    /\ UNCHANGED <<page, pc, shown, importError, heap, frame, firstLoad, disk, reads, input>>

ShowTopChannel ==
    /\ output = Idle
    /\ output' = [op |-> "top_channel", top |-> top_channel(input.table)]
    /\ UNCHANGED <<page, pc, shown, importError, heap, frame, firstLoad, disk, reads, input>>

SpecOverview == InitOverview /\ [][ShowChannelPerformance \/ ShowTopChannel]_vars

\* The summed revenue of channel c, and the first row of c in the table.
ChannelRevenue(t, c) == SumSeq(Column(SelectSeq(t, LAMBDA r : r.channel = c), "revenue"))
FirstRowOf(t, c) == CHOOSE i \in 1..Len(t) : t[i].channel = c /\ \A j \in 1..i - 1 : t[j].channel # c

(***************************************************************************)
(* C24. The 'Top Channel' metric shows a channel whose summed revenue is   *)
(* the maximum over the channels, and of the channels that tie for the     *)
(* maximum the one that occurs first in the rows of the campaign table.    *)
(***************************************************************************)
TopChannelFirstInTable ==
    output.op = "top_channel" =>
        LET t == input.table
            present == {t[i].channel : i \in 1..Len(t)}
            shown_channel == output.top.channel
        IN  /\ shown_channel \in present
            /\ output.top.revenue = ChannelRevenue(t, shown_channel)
            /\ \A c \in present : ChannelRevenue(t, c) <= ChannelRevenue(t, shown_channel)
            /\ \A c \in present \ {shown_channel} :
                  ChannelRevenue(t, c) = ChannelRevenue(t, shown_channel) =>
                     FirstRowOf(t, shown_channel) < FirstRowOf(t, c)

(***************************************************************************)
(* C26. For each metric that can be selected in Channel Performance the    *)
(* chart is drawn from the per-channel sum of the revenue or conversions   *)
(* column or the per-channel mean of roas: no selectable metric ends in    *)
(* the error branch.                                                       *)
(***************************************************************************)
SelectableMetricsCharted ==
    output.op = "channel_performance" =>
        /\ output.chart.kind = "bar"
        /\ output.metric = "Revenue" =>
              (output.chart.agg = "sum" /\ output.chart.column = "revenue")
        /\ output.metric = "Conversions" =>
              (output.chart.agg = "sum" /\ output.chart.column = "conversions")
        /\ output.metric = "ROAS" =>
              (output.chart.agg = "mean" /\ output.chart.column = "roas")

(***************************************************************************)
(* Top-N selections: feature_df.nlargest(3, ...) of ml_evaluation.py and   *)
(* the top products of product_performance.py.  A name is modelled by its  *)
(* rank in string order.                                                   *)
(***************************************************************************)
MaxProducts == 6

\* Rows (name, value): row i carries its own name, or in rows 2 and 3 the
\* name of row 1, so that a product can have several rows.
TopTables ==
    UNION {{[i \in 1..k |-> [name |-> IF c[i].shared THEN 1 ELSE i, value |-> c[i].value]] :
               c \in {d \in [1..k -> [shared : BOOLEAN, value : {1, 2}]] :
                         \A i \in 1..k : d[i].shared => i \in {2, 3}}}
           : k \in 1..MaxProducts}

\* sort_values(ascending=False) on the rows S: a row holding the largest
\* value comes first, whichever of them, then the others in the same way.
RECURSIVE sort_descending(_, _)
sort_descending(values, S) ==
    IF S = {} THEN {<<>>}
    ELSE UNION {{<<i>> \o q : q \in sort_descending(values, S \ {i})}
                : i \in {j \in S : \A k \in S : values[k] <= values[j]}}

\* A variant that takes the first n rows as they stand.
nlargest_head(values, n) ==
    {[k \in 1..(IF n < Len(values) THEN n ELSE Len(values)) |-> k]}

\* nlargest(n, col), keep='first': the rows a result can consist of, as
\* indices into the table.  With n below the number of rows the n largest
\* are taken, the earlier row first among equal values; otherwise the result
\* is sort_values(ascending=False).head(n), whose sort is not stable.
nlargest(values, n) ==
    IF n >= Len(values)
    THEN sort_descending(values, 1..Len(values))
    ELSE {[k \in 1..n |->
             CHOOSE i \in 1..Len(values) :
                 Cardinality({j \in 1..Len(values) :
                                 \/ values[j] > values[i]
                                 \/ (values[j] = values[i] /\ j < i)}) = k - 1]}

\* groupby('product_name').agg({'sales': 'sum', ...}): one row per name, in
\* the order of the names.
product_totals(t) ==
    LET names == {t[i].name : i \in 1..Len(t)}
        keys == SelectSeq([i \in 1..MaxProducts |-> i], LAMBDA k : k \in names)
    IN  [g \in 1..Len(keys) |->
            [name |-> keys[g],
             value |-> SumSeq(Column(SelectSeq(t, LAMBDA r : r.name = keys[g]), "value"))]]

InitTopN ==
    /\ InitDashboard
    /\ input \in [table : TopTables, n_products : {5, 20}]
    /\ output = Idle

\* ml_evaluation.py lines 191-196: the three most important features.
ShowTopFeatures ==
    /\ output = Idle
    /\ \E p \in nlargest(Column(input.table, "value"), 3) :
          output' = [op |-> "top", n |-> 3, candidates |-> input.table,
                     top |-> [k \in 1..Len(p) |-> input.table[p[k]]]]
    /\ UNCHANGED <<page, pc, shown, importError, heap, frame, firstLoad, disk, reads, input>>

\* product_performance.py lines 160-170: the n_products products with the
\* largest summed sales.
ShowTopProducts ==
    /\ output = Idle
    /\ LET totals == product_totals(input.table)
       IN  \E p \in nlargest(Column(totals, "value"), input.n_products) :
              output' = [op |-> "top", n |-> input.n_products, candidates |-> totals,
                         top |-> [k \in 1..Len(p) |-> totals[p[k]]]]
    /\ UNCHANGED <<page, pc, shown, importError, heap, frame, firstLoad, disk, reads, input>>

SpecTopN == InitTopN /\ [][ShowTopFeatures \/ ShowTopProducts]_vars

(***************************************************************************)
(* C25. A top-N selection returns exactly min(N, number of candidates) of  *)
(* the candidates, none of them twice, each with a value at least as large *)
(* as that of every candidate left out, in descending order of the value.  *)
(***************************************************************************)
TopNSelectsLargest ==
    output.op = "top" =>
        LET c == output.candidates
            top == output.top
            n == output.n
            Times(r, q) == Cardinality({i \in 1..Len(q) : q[i] = r})
        IN  /\ Len(top) = IF n < Len(c) THEN n ELSE Len(c)
            /\ \A r \in Range(top) : Times(r, top) <= Times(r, c)
            /\ \A r \in Range(c) : \A i \in 1..Len(top) :
                  Times(r, top) < Times(r, c) => r.value <= top[i].value
            /\ \A i \in 1..Len(top) - 1 : top[i].value >= top[i + 1].value

\* Five products are selected out of six whose sales differ, and the one
\* left out is not the last of the table.
TopNSelectsLargestWitness ==
    /\ output.op = "top"
    /\ output.n = 5
    /\ Len(output.candidates) = 6
    /\ Len(output.top) = 5
    /\ output.candidates[1].value = 1
    /\ output.candidates[6].value = 2
    /\ output.top[1].value = 2 /\ output.top[5].value = 1

(***************************************************************************)
(* ml_evaluation.show, section 4: the threshold analysis.  Probabilities   *)
(* and thresholds are counted in hundredths.                               *)
(***************************************************************************)
\* Positions of the slider (0.0 to 1.0 in steps of 0.05).
Thresholds == {0, 5, 50, 55, 100}

ThresholdRows == [actual : Labels, probability : {10, 50, 90}]

\* A variant that predicts the positive class below the threshold.
threshold_metrics_below(t, threshold) ==
    LET predicted_at_threshold ==
            [i \in 1..Len(t) |->
                [actual |-> t[i].actual,
                 predicted |-> IF t[i].probability <= threshold THEN 1 ELSE 0]]
        cm == confusion_counts(predicted_at_threshold)
    IN  IF cm.kind = "error" THEN cm
        ELSE [kind |-> "metrics", tn |-> cm.tn, fp |-> cm.fp, fn |-> cm.fn, tp |-> cm.tp,
              accuracy |-> FDiv(FFromInt(cm.tp + cm.tn), <<cm.tp + cm.tn + cm.fp + cm.fn>>),
              precision |-> IF cm.tp + cm.fp > 0
                            THEN FDiv(FFromInt(cm.tp), <<cm.tp + cm.fp>>) ELSE FZero,
              recall |-> IF cm.tp + cm.fn > 0
                         THEN FDiv(FFromInt(cm.tp), <<cm.tp + cm.fn>>) ELSE FZero]

\* Lines 115-132: the predictions at the threshold, their confusion matrix
\* and the three rates.
threshold_metrics(t, threshold) ==
    LET predicted_at_threshold ==
            [i \in 1..Len(t) |->
                [actual |-> t[i].actual,
                 predicted |-> IF t[i].probability >= threshold THEN 1 ELSE 0]]
        cm == confusion_counts(predicted_at_threshold)
    IN  IF cm.kind = "error" THEN cm
        ELSE [kind |-> "metrics", tn |-> cm.tn, fp |-> cm.fp, fn |-> cm.fn, tp |-> cm.tp,
              accuracy |-> FDiv(FFromInt(cm.tp + cm.tn), <<cm.tp + cm.tn + cm.fp + cm.fn>>),
              precision |-> IF cm.tp + cm.fp > 0
                            THEN FDiv(FFromInt(cm.tp), <<cm.tp + cm.fp>>) ELSE FZero,
              recall |-> IF cm.tp + cm.fn > 0
                         THEN FDiv(FFromInt(cm.tp), <<cm.tp + cm.fn>>) ELSE FZero]

InitThreshold ==
    /\ InitDashboard
    /\ input \in [table : SeqsUpTo(ThresholdRows, MaxLeads)]
    /\ output = Idle

\* The page as first drawn or after the slider has been moved.
MoveThreshold ==
    /\ \E threshold \in Thresholds :
          /\ output.op = "threshold" => output.threshold # threshold
          /\ output' = [op |-> "threshold", threshold |-> threshold,
                        result |-> threshold_metrics(input.table, threshold)]
    /\ UNCHANGED <<page, pc, shown, importError, heap, frame, firstLoad, disk, reads, input>>

SpecThreshold == InitThreshold /\ [][MoveThreshold]_vars

\* x <= y for doubles that are not negative.
FLessEq(x, y) ==
    \/ x = FZero
    \/ y # FZero /\ (x.e < y.e \/ (x.e = y.e /\ BCmp(x.m, y.m) <= 0))

(***************************************************************************)
(* C27. For a lead table with both classes, when the threshold is moved    *)
(* from t1 to t2 >= t1 the predicted positives, the true positives, the    *)
(* false positives and the recall do not grow, and tp + fn and tn + fp     *)
(* stay as they were.                                                      *)
(***************************************************************************)
ThresholdMonotone ==
    [][(/\ \E i, j \in 1..Len(input.table) :
              input.table[i].actual = 0 /\ input.table[j].actual = 1
        /\ output.op = "threshold"
        /\ output'.op = "threshold"
        /\ output.threshold <= output'.threshold) =>
            LET r1 == output.result
                r2 == output'.result
            IN  /\ r1.kind = "metrics" /\ r2.kind = "metrics"
                /\ r2.tp + r2.fp <= r1.tp + r1.fp
                /\ r2.tp <= r1.tp
                /\ r2.fp <= r1.fp
                /\ FLessEq(r2.recall, r1.recall)
                /\ r2.tp + r2.fn = r1.tp + r1.fn
                /\ r2.tn + r2.fp = r1.tn + r1.fp]_vars

\* At 0.55 one of two converted leads and no other lead is predicted
\* positive.
ThresholdMonotoneWitness ==
    /\ output.op = "threshold"
    /\ output.threshold = 55
    /\ output.result.kind = "metrics"
    /\ output.result.tp = 1 /\ output.result.fn = 1
    /\ output.result.fp = 0 /\ output.result.tn = 2

(***************************************************************************)
(* C28. For a learning-curve table with at least three columns, whatever   *)
(* their names and order, the three columns create_learning_curve_plot     *)
(* resolves (training-set size, training score, validation score) are      *)
(* pairwise distinct: no column is plotted against itself.                 *)
(***************************************************************************)
ResolvedColumnsDistinct ==
    (output.op = "plot" /\ Len(input.table.columns) >= 3) =>
        LET fig == output.result
        IN  /\ fig.kind = "figure"
            /\ Len(fig.traces) = 2
            /\ fig.traces[1].x.name # fig.traces[1].y.name
            /\ fig.traces[2].x.name # fig.traces[2].y.name
            /\ fig.traces[1].y.name # fig.traces[2].y.name

(***************************************************************************)
(* C29. The number format_number prints before the suffix (the whole       *)
(* number when there is no suffix) is below 1000 in absolute value: it has *)
(* at most three digits before the point, and 999999 at 0 decimals is not  *)
(* shown as "1000K".                                                       *)
(***************************************************************************)
PrintedBelowThousand ==
    output.op = "format" =>
        LET text == output.text
            body == SelectSeq(text, LAMBDA c : c \notin {"-", "K", "M", "B"})
            point == {i \in 1..Len(body) : body[i] = "."}
            whole == IF point = {} THEN body
                     ELSE SubSeq(body, 1, (CHOOSE i \in point : TRUE) - 1)
        IN  /\ Len(whole) <= 3
            /\ (input.num = 999999 /\ input.decimals = 0) =>
                  text # <<"1", "0", "0", "0", "K">>

(***************************************************************************)
(* page_modules/attribution_funnel.py, section 3, and create_funnel_chart  *)
(* of utils/visualizations.py.                                             *)
(***************************************************************************)
MaxStages == 3

FunnelRows == [stage : {"Awareness", "Purchase"}, visitors : {0, 1, 3, 12}]

\* Lines 424-442: go.Funnel(y=data[stage_col], x=data[count_col]) draws the
\* rows from the top in the order of the table it is given.
create_funnel_chart(data, stage_col, count_col) ==
    [kind |-> "funnel", y |-> Column(data, stage_col), x |-> Column(data, count_col)]

\* (1 - part / whole) * 100 as the doubles compute it; 0 / 0 is NaN.
percent_lost(part, whole) ==
    IF whole = 0 THEN FNaN
    ELSE FMul(FSub(FFromInt(1), FDiv(FFromInt(part), <<whole>>)), FFromInt(100))

\* Lines 115-117: the table by descending visitors with the drop against the
\* stage before (pct_change() * -100, as its magnitude) and against the
\* first stage.
funnel_rates(funnel_df_sorted) ==
    [i \in 1..Len(funnel_df_sorted) |->
        [stage |-> funnel_df_sorted[i].stage,
         visitors |-> funnel_df_sorted[i].visitors,
         conversion_rate |->
            IF i = 1 THEN FNaN
            ELSE percent_lost(funnel_df_sorted[i].visitors, funnel_df_sorted[i - 1].visitors),
         cumulative_drop |->
            percent_lost(funnel_df_sorted[i].visitors, funnel_df_sorted[1].visitors)]]

\* Line 142: visitors.iloc[-1] / visitors.iloc[0] * 100.
overall_conversion(funnel_df_sorted) ==
    IF funnel_df_sorted[1].visitors = 0 THEN FNaN
    ELSE FMul(FDiv(FFromInt(funnel_df_sorted[Len(funnel_df_sorted)].visitors),
                   <<funnel_df_sorted[1].visitors>>), FFromInt(100))

InitFunnel ==
    /\ InitDashboard
    /\ input \in [table : SeqsUpTo(FunnelRows, MaxStages)]
    /\ output = Idle

\* Lines 103-147.  The chart is given the table sorted by ascending
\* visitors, the rates are computed on the table sorted by descending
\* visitors; iloc[0] of a table without rows raises IndexError.
ShowFunnel ==
    /\ output = Idle
    /\ LET funnel_df == input.table
       IN  \E p1 \in SortOrders(Column(funnel_df, "visitors"), TRUE),
              p2 \in SortOrders(Column(funnel_df, "visitors"), FALSE) :
              LET funnel_sorted == Reorder(funnel_df, p1)
                  funnel_df_sorted == Reorder(funnel_df, p2)
              IN  output' =
                     IF funnel_df = <<>>
                     THEN [op |-> "funnel", kind |-> "error",
                           chart |-> create_funnel_chart(funnel_sorted, "stage", "visitors"),
                           error |-> IndexError]
                     ELSE [op |-> "funnel", kind |-> "page",
                           chart |-> create_funnel_chart(funnel_sorted, "stage", "visitors"),
                           funnel_table |-> funnel_rates(funnel_df_sorted),
                           overall_conversion |-> overall_conversion(funnel_df_sorted)]
    /\ UNCHANGED <<page, pc, shown, importError, heap, frame, firstLoad, disk, reads, input>>

SpecFunnel == InitFunnel /\ [][ShowFunnel]_vars

(***************************************************************************)
(* C30. In the funnel table, with a top count above 0, the cumulative loss *)
(* is 0 for the first stage, never decreases down the table and never      *)
(* exceeds 100, the overall conversion plus the last stage's cumulative    *)
(* loss is 100, and the funnel chart lists the stages from the top in the  *)
(* order of the table.                                                     *)
(***************************************************************************)
FunnelTableAndChartAgree ==
    (output.op = "funnel" /\ output.kind = "page"
        /\ output.funnel_table[1].visitors > 0) =>
        LET ft == output.funnel_table
            n == Len(ft)
        IN  /\ \A i \in 1..n - 1 : ft[i].visitors >= ft[i + 1].visitors
            /\ ft[1].cumulative_drop = FZero
            /\ \A i \in 1..n - 1 : FLessEq(ft[i].cumulative_drop, ft[i + 1].cumulative_drop)
            /\ \A i \in 1..n : FLessEq(ft[i].cumulative_drop, FFromInt(100))
            /\ FAdd(output.overall_conversion, ft[n].cumulative_drop) = FFromInt(100)
            /\ output.chart.y = Column(ft, "stage")
            /\ output.chart.x = Column(ft, "visitors")

=============================================================================
